---- MODULE Spec2Model ----
(***************************************************************************)
(* a10-guardian: the session-authenticated request executor (A10Client,    *)
(* AuthService) and the mitigation reconciler (MitigationService) against  *)
(* a remote appliance whose responses are nondeterministic.                *)
(*                                                                         *)
(* Each caller runs one operation at a time.  An operation advances one    *)
(* step per network exchange group: establishing the connection, the       *)
(* first transport send of a request, the re-authentication after a        *)
(* session expiry, the replay, and the handler code between two client     *)
(* calls.                                                                  *)
(***************************************************************************)
EXTENDS Integers, Sequences, FiniteSets, TLC

(***************************************************************************)
(* Bounds of the model.                                                    *)
(***************************************************************************)
\* zone ids the appliance can hand out (ids are never reused)
MaxZones == 3
\* sessions the appliance can hand out (each full login gets a new one)
MaxLogins == 2
\* operations of the reconciler in one behaviour
MaxOps == 2

\* get_zone_by_ip asks for page=1&items=1000: the first page only.  The page
\* size is scaled to the model's appliance, which can hold two zones more
\* than one page shows.
LookupItems == MaxZones - 2

Callers == {"c1", "c2"}
\* the callers that are request handlers of the REST API
RestCallers == {"c1"}
IPs == {"10.0.0.1", "10.0.0.2"}
TemplateNames == {"t1", "t2"}
\* template=None
NoTemplate == "none"
TemplateArgs == {NoTemplate, "t1"}

VARIABLES
    zones,      \* appliance: the set of zones, each [id, name]
    nextZone,   \* appliance: the next zone id
    nextSid,    \* appliance: the next session id
    settings,   \* Settings: the notification flags
    cache,      \* SESSION_CACHE_FILE: a cookie set, or NoSession (no file)
    session,    \* A10Client.session of each caller's client
    conn,       \* the exchanges of a client.connect() called on its own
    op,         \* the operation each caller runs
    pc,         \* its position
    loc,        \* its local variables
    rq,         \* the A10Client._request call in progress
    log,        \* the client calls it completed and the notifications it sent
    res,        \* its outcome
    prev,       \* the operation completed last, when a successful ensure
    ops,        \* the number of operations begun
    notify,     \* Settings: the notification flags the pollers read
    azones,     \* appliance: the zone configurations the detector polls
    anext,      \* appliance: the next zone id of these
    known_zones,      \* ZoneChangeService.known_zones
    zpc,        \* monitor_zone_changes: its position
    zcycle,     \* monitor_zone_changes: what its last pass fetched and did
    baseline,   \* the zone ids on the appliance when monitor_zone_changes began
    known_incidents,  \* monitor_ddos_attacks: known_incidents
    clock,      \* the event loop's time, in poll intervals
    tcycle,     \* monitor_ddos_attacks: what its last cycle fetched and did
    acall,      \* the last notify_zone_* call: its arguments and what it did
    task,       \* lifespan: the poller tasks
    life,       \* lifespan: its position
    hmon,       \* monitor_a10_health: last_status and the checks it made
    csession,   \* Container._client.session, the client the MCP tools share
    th          \* the _request call of each MCP tool call in progress

clientVars == <<zones, nextZone, nextSid, settings, cache, session, conn, op, pc, loc, rq, log, res, prev, ops>>
detectorVars == <<azones, anext, known_zones, zpc, zcycle, baseline>>
trackerVars == <<known_incidents, clock, tcycle>>
loopVars == <<task, life, hmon>>
containerVars == <<csession, th>>
pollerVars == <<notify, detectorVars, trackerVars, acall, loopVars, containerVars>>
vars == <<clientVars, pollerVars>>

(***************************************************************************)
(* Sessions: a cookie set is the session id and the csrftoken cookie (0    *)
(* when the jar holds none).  The token of a session is its own: no two    *)
(* sessions share one.                                                     *)
(***************************************************************************)
NoSession == [sid |-> 0, csrf |-> 0]
Cookies(n, hasToken) == [sid |-> n, csrf |-> IF hasToken THEN n ELSE 0]

(***************************************************************************)
(* What the appliance answers during connect().                            *)
(*   probe: the GET /dashboard/ of validate_session, redirects disabled    *)
(*   get:   the GET of the login page                                      *)
(*   post:  the credential POST (its final URL and body)                   *)
(*   save:  whether writing the cache file works                           *)
(***************************************************************************)
NoProbe == [status |-> -1, locLogin |-> FALSE, bodyLogin |-> FALSE]
ProbeResps ==
    { [status |-> 200, locLogin |-> FALSE, bodyLogin |-> FALSE],
      [status |-> 200, locLogin |-> FALSE, bodyLogin |-> TRUE],
      [status |-> 302, locLogin |-> TRUE,  bodyLogin |-> FALSE],
      [status |-> 302, locLogin |-> FALSE, bodyLogin |-> FALSE],
      [status |-> 500, locLogin |-> FALSE, bodyLogin |-> FALSE],
      [status |-> 0,   locLogin |-> FALSE, bodyLogin |-> FALSE] }   \* RequestException

GetResps == {"fail", "no_token", "token"}

NoPost == [status |-> "none", url |-> "none", marker |-> FALSE, csrfCookie |-> FALSE]
PostResps ==
    { [status |-> "fail", url |-> "none", marker |-> FALSE, csrfCookie |-> FALSE] }
    \cup [status : {"ok"}, url : {"login_url", "other_login", "other"},
          marker : BOOLEAN, csrfCookie : BOOLEAN]

\* the answers of one connect(); an exchange that cannot take place has one
\* canonical answer
AuthEnvs ==
    { e \in [probe : ProbeResps \cup {NoProbe}, get : GetResps, post : PostResps \cup {NoPost}, save : BOOLEAN] :
        /\ (e.get = "token") <=> (e.post # NoPost)
        /\ (e.post.url # "other") => e.save }

\* the answers of a connect() made inside a request: one for each way
\* through get_authenticated_session and login
ReqAuthEnvs ==
    { e \in AuthEnvs :
        /\ e.probe \in {NoProbe, [status |-> 200, locLogin |-> FALSE, bodyLogin |-> FALSE],
                                  [status |-> 302, locLogin |-> TRUE, bodyLogin |-> FALSE]}
        /\ e.get # "no_token"
        /\ e.post \in {NoPost,
                        [status |-> "ok", url |-> "other", marker |-> FALSE, csrfCookie |-> TRUE],
                        [status |-> "ok", url |-> "other", marker |-> FALSE, csrfCookie |-> FALSE],
                        [status |-> "ok", url |-> "login_url", marker |-> FALSE, csrfCookie |-> TRUE],
                        [status |-> "ok", url |-> "login_url", marker |-> TRUE, csrfCookie |-> TRUE]}
        /\ ~e.save => e.post.csrfCookie }

(***************************************************************************)
(* AuthService                                                             *)
(***************************************************************************)
\* load_session: the cookies of the cache file, None without a file
load_session(cch) == cch

\* validate_session; response.url is the probed URL itself (redirects are
\* not followed), which does not contain "auth/login"
validate_session(r) ==
    IF r.status = 0 THEN FALSE
    ELSE IF r.status = 200 THEN TRUE
    ELSE IF r.status = 302 /\ r.locLogin THEN FALSE
    ELSE TRUE

\* a login that falls back on the cached cookies when the login page cannot
\* be fetched
login_or_cached(cch, sid, e) ==
    LET none == [session |-> NoSession, cache |-> cch, gets |-> 1, posts |-> 0, saved |-> FALSE]
        s == Cookies(sid, e.post.csrfCookie)
    IN
    IF e.get = "fail" THEN [none EXCEPT !.session = cch]
    ELSE IF e.get = "no_token" THEN none
    ELSE IF e.post.status = "fail" THEN [none EXCEPT !.posts = 1]
    ELSE IF e.post.url = "other"
         THEN [session |-> s, cache |-> IF e.save THEN s ELSE cch, gets |-> 1, posts |-> 1, saved |-> e.save]
    ELSE IF e.post.marker THEN [none EXCEPT !.posts = 1]
    ELSE [session |-> s, cache |-> cch, gets |-> 1, posts |-> 1, saved |-> FALSE]

\* a login that posts the credentials whatever the login page held
login_without_token(cch, sid, e) ==
    LET none == [session |-> NoSession, cache |-> cch, gets |-> 1, posts |-> 0, saved |-> FALSE]
        s == Cookies(sid, e.post.csrfCookie)
    IN
    IF e.get = "fail" THEN none
    ELSE IF e.post.status = "fail" THEN [none EXCEPT !.posts = 1]
    ELSE IF e.post.url = "other"
         THEN [session |-> s, cache |-> IF e.save THEN s ELSE cch, gets |-> 1, posts |-> 1, saved |-> e.save]
    ELSE IF e.post.marker THEN [none EXCEPT !.posts = 1]
    ELSE [session |-> s, cache |-> cch, gets |-> 1, posts |-> 1, saved |-> FALSE]

\* login: [session, cache, gets, posts, saved]; session = NoSession is None
login(cch, sid, e) ==
    LET none == [session |-> NoSession, cache |-> cch, gets |-> 1, posts |-> 0, saved |-> FALSE] IN
    IF e.get = "fail" THEN none
    ELSE IF e.get = "no_token" THEN none
    ELSE LET s == Cookies(sid, e.post.csrfCookie) IN
         IF e.post.status = "fail" THEN [none EXCEPT !.posts = 1]
         ELSE IF e.post.url = "other"
              THEN [session |-> s, cache |-> IF e.save THEN s ELSE cch,
                    gets |-> 1, posts |-> 1, saved |-> e.save]
         ELSE IF e.post.marker THEN [none EXCEPT !.posts = 1]
         ELSE [session |-> s, cache |-> cch, gets |-> 1, posts |-> 1, saved |-> FALSE]

\* a session lookup that never reads the cache
get_authenticated_session_login_only(cch, sid, e) == login(cch, sid, e)

\* get_authenticated_session
get_authenticated_session(cch, sid, e) ==
    LET s == load_session(cch) IN
    IF s # NoSession /\ validate_session(e.probe)
    THEN [session |-> s, cache |-> cch, gets |-> 0, posts |-> 0, saved |-> FALSE]
    ELSE login(cch, sid, e)

(***************************************************************************)
(* A10Client.connect: self.session is assigned before the check, so a      *)
(* failed connect leaves the client without a session.                     *)
(***************************************************************************)
NoConn == [loaded |-> FALSE, probe |-> NoProbe, get |-> "none", post |-> NoPost,
           gets |-> 0, posts |-> 0, saved |-> FALSE, raised |-> FALSE, at |-> "none"]

\* the exchanges of one connect(): the probe answer when a session was
\* loaded, the answers of the login exchanges that took place
ConnectRec(cch, e, a, where) ==
    [loaded |-> cch # NoSession,
     probe |-> IF cch # NoSession THEN e.probe ELSE NoProbe,
     get |-> IF a.gets = 1 THEN e.get ELSE "none",
     post |-> IF a.posts = 1 THEN e.post ELSE NoPost,
     gets |-> a.gets, posts |-> a.posts,
     saved |-> a.saved, raised |-> a.session = NoSession, at |-> where]

\* the same without the answers: how the session was come by
ConnectSummary(cch, a, where) ==
    [NoConn EXCEPT !.loaded = cch # NoSession, !.gets = a.gets, !.posts = a.posts,
                   !.saved = a.saved, !.raised = a.session = NoSession, !.at = where]

AuthResult(e) == get_authenticated_session(cache, nextSid, e)

\* a connect that keeps the session it had when authentication fails
connect_session_kept(old, a) == IF a.session = NoSession THEN old ELSE a.session

\* connect: self.session = get_authenticated_session(...), before the test
\* that raises ConnectionError
connect_session(old, a) == a.session

\* there is a probe answer exactly when there is a cache file to load; the
\* appliance hands out no session beyond MaxLogins
CanAnswer(e) ==
    /\ (e.probe = NoProbe) <=> (cache = NoSession)
    /\ (AuthResult(e).posts = 1 /\ AuthResult(e).session # NoSession) => nextSid <= MaxLogins

connect(c, e, where) ==
    LET a == AuthResult(e) IN
    /\ CanAnswer(e)
    /\ session' = [session EXCEPT ![c] = connect_session(session[c], a)]
    /\ cache' = a.cache
    /\ nextSid' = IF a.posts = 1 /\ a.session # NoSession THEN nextSid + 1 ELSE nextSid
    /\ conn' = [conn EXCEPT ![c] = IF where = "direct" THEN ConnectRec(cache, e, a, where)
                                    ELSE IF where = "client" THEN ConnectSummary(cache, a, where)
                                    ELSE NoConn]

(***************************************************************************)
(* A10Client._request                                                      *)
(***************************************************************************)
NoArg == [id |-> 0, name |-> "", ip_list |-> <<>>, input_ips |-> <<>>, tmpl |-> NoTemplate]
NoBody == [rows |-> {}, id |-> 0]
NoReq == [phase |-> "none", method |-> "none", target |-> "none", arg |-> NoArg,
          hdr |-> 0, sends |-> <<>>, reauth |-> "none", status |-> 0, body |-> NoBody, exc |-> "none"]

\* get / post / delete: the request as _request receives it (no headers yet)
NewReq(method, target, arg) ==
    [NoReq EXCEPT !.phase = "ensure", !.method = method, !.target = target, !.arg = arg]

\* the statuses a transport send can come back with, after the adapter's own
\* retries: 200, 204, 403, 200 at the login URL, any other failure
Resps ==
    { [status |-> 200, urlLogin |-> FALSE],
      [status |-> 204, urlLogin |-> FALSE],
      [status |-> 403, urlLogin |-> FALSE],
      [status |-> 200, urlLogin |-> TRUE],
      [status |-> 500, urlLogin |-> FALSE] }

StateChanging(method) == method \in {"POST", "DELETE", "PUT", "PATCH"}

\* an injection that leaves a header already set alone
_inject_csrf_token_keep(s, hdr) == IF hdr # 0 THEN hdr ELSE s.csrf

\* _inject_csrf_token: the headers of kwargs are kept from one send to the
\* next; X-Csrftoken is overwritten only when the session has a token
_inject_csrf_token(s, hdr) == IF s.csrf # 0 THEN s.csrf ELSE hdr

\* the X-Csrftoken header of a send (0: none)
HeaderFor(method, s, hdr) ==
    IF StateChanging(method) THEN _inject_csrf_token(s, hdr) ELSE hdr

_is_session_expired(r) == r.status = 403 \/ (r.status = 200 /\ r.urlLogin)

\* raise_for_status, the 204 case and response.json(): the login page is
\* not JSON
Outcome(r) ==
    IF r.status >= 400 THEN "HTTPError"
    ELSE IF r.status = 204 THEN "empty"
    ELSE IF r.urlLogin THEN "JSONDecodeError"
    ELSE "json"

(***************************************************************************)
(* The appliance's side of an API request that it accepts (a 2xx answer    *)
(* that is not the login page).                                            *)
(***************************************************************************)
ZoneIds == {z.id : z \in zones}

\* the first page of the zone listing: all zones when they fit the page,
\* else any LookupItems of them (the appliance's order is its own)
Pages(n) == IF Cardinality(zones) <= n THEN {zones}
            ELSE {p \in SUBSET zones : Cardinality(p) = n}

\* the appliance accepts a request only for a zone it has; a listing and a
\* creation are never answered with 204
Accepts(r, q) ==
    /\ q.target \in {"detail", "monitor", "delete"} => q.arg.id \in ZoneIds
    /\ q.target \in {"list", "detail", "create"} => r.status = 200

Accepted(r) == r.status \in {200, 204} /\ ~r.urlLogin

\* one transport send of request q with header h under session s, answered
\* by r; after says where _request goes next.  A send is recorded with its
\* X-Csrftoken header, the session it went out under and that session's token
Transport(c, q, h, s, r, after) ==
    LET sent == Append(q.sends, [hdr |-> h, sid |-> s.sid, tok |-> s.csrf,
                                 status |-> r.status, urlLogin |-> r.urlLogin])
        q1 == [q EXCEPT !.hdr = h, !.sends = sent, !.status = r.status]
        fin(b) == [q1 EXCEPT !.phase = IF Outcome(r) \in {"json", "empty"} THEN "ok" ELSE "fail",
                             !.exc = IF Outcome(r) \in {"json", "empty"} THEN "none" ELSE Outcome(r),
                             !.body = IF Outcome(r) = "json" THEN b ELSE NoBody]
        nxt(b) == IF after = "check" /\ _is_session_expired(r)
                  THEN [q1 EXCEPT !.phase = "reauth"] ELSE fin(b)
    IN
    IF ~Accepted(r)
    THEN /\ rq' = [rq EXCEPT ![c] = nxt(NoBody)]
         /\ UNCHANGED <<zones, nextZone>>
    ELSE /\ Accepts(r, q)
         /\ CASE q.target = "list" ->
                   \E rows \in Pages(LookupItems) :
                      /\ rq' = [rq EXCEPT ![c] = nxt([rows |-> rows, id |-> 0])]
                      /\ UNCHANGED <<zones, nextZone>>
              [] q.target = "create" ->
                   \E withId \in BOOLEAN :
                      /\ withId => nextZone <= MaxZones
                      /\ rq' = [rq EXCEPT ![c] = nxt([rows |-> {}, id |-> IF withId THEN nextZone ELSE 0])]
                      /\ zones' = IF withId THEN zones \cup {[id |-> nextZone, name |-> q.arg.name]} ELSE zones
                      /\ nextZone' = IF withId THEN nextZone + 1 ELSE nextZone
              [] q.target = "delete" ->
                   /\ rq' = [rq EXCEPT ![c] = nxt(NoBody)]
                   /\ zones' = {z \in zones : z.id # q.arg.id}
                   /\ UNCHANGED nextZone
              [] OTHER ->
                   /\ rq' = [rq EXCEPT ![c] = nxt([rows |-> {}, id |-> q.arg.id])]
                   /\ UNCHANGED <<zones, nextZone>>

\* what _request does with the answer to the first send ("check": test it
\* for session expiry) and with the answer to the replay ("final": no test)
FirstMode == "check"
ReplayMode_checked == "check"
ReplayMode == "final"

\* _ensure_connection
ReqEnsure(c) ==
    /\ rq[c].phase = "ensure"
    /\ IF session[c] # NoSession
       THEN /\ rq' = [rq EXCEPT ![c].phase = "send"]
            /\ conn' = [conn EXCEPT ![c] = NoConn]
            /\ UNCHANGED <<session, cache, nextSid>>
       ELSE \E e \in ReqAuthEnvs :
            /\ connect(c, e, "ensure")
            /\ rq' = [rq EXCEPT ![c].phase = IF AuthResult(e).session # NoSession THEN "send" ELSE "fail",
                                ![c].exc = IF AuthResult(e).session # NoSession THEN "none" ELSE "ConnectionError"]
    /\ UNCHANGED <<zones, nextZone, settings, op, pc, loc, log, res, prev, ops>>

\* the first send, and the test for session expiry
ReqSend(c) ==
    /\ rq[c].phase = "send"
    /\ \E r \in Resps :
          Transport(c, rq[c], HeaderFor(rq[c].method, session[c], rq[c].hdr), session[c], r, FirstMode)
    /\ conn' = [conn EXCEPT ![c] = NoConn]
    /\ UNCHANGED <<session, cache, nextSid, settings, op, pc, loc, log, res, prev, ops>>

\* self.connect() after an expired answer
ReqReauth(c) ==
    /\ rq[c].phase = "reauth"
    /\ \E e \in ReqAuthEnvs :
          /\ connect(c, e, "reauth")
          /\ rq' = [rq EXCEPT ![c].phase = IF AuthResult(e).session # NoSession THEN "replay" ELSE "fail",
                              ![c].reauth = IF AuthResult(e).session = NoSession THEN "failed"
                                            ELSE IF AuthResult(e).gets = 1 THEN "login" ELSE "cached",
                              ![c].exc = IF AuthResult(e).session # NoSession THEN "none" ELSE "ConnectionError"]
    /\ UNCHANGED <<zones, nextZone, settings, op, pc, loc, log, res, prev, ops>>

\* the replay: its answer is not tested for expiry again
ReqReplay(c) ==
    /\ rq[c].phase = "replay"
    /\ \E r \in Resps :
          Transport(c, rq[c], HeaderFor(rq[c].method, session[c], rq[c].hdr), session[c], r, ReplayMode)
    /\ conn' = [conn EXCEPT ![c] = NoConn]
    /\ UNCHANGED <<session, cache, nextSid, settings, op, pc, loc, log, res, prev, ops>>

(***************************************************************************)
(* MitigationService                                                       *)
(***************************************************************************)
NoZone == [id |-> 0, name |-> ""]
NoPrev == [ip |-> "", template |-> NoTemplate]
NoOp == [kind |-> "none", ip |-> "", template |-> NoTemplate]
NoLoc == [stored |-> {}, template |-> NoTemplate, branch |-> "none", zone |-> NoZone, prev |-> NoPrev]
NoRes == [raised |-> "none", status |-> "none", zone_id |-> 0, msg |-> "none", names |-> {}]

\* a completed client call, a notification handed to the sink
Call(q) == [ev |-> q.target, id |-> q.arg.id, name |-> q.arg.name, tmpl |-> q.arg.tmpl, ok |-> q.phase = "ok"]
Notification(event, id, ip, tmpl) == [ev |-> event, id |-> id, name |-> ip, tmpl |-> tmpl, ok |-> TRUE]

\* everything the reconciler raises or lets through derives from Exception
ExceptionClasses ==
    {"NoTemplates", "MultipleTemplates", "TemplateNotFoundError", "ConnectionError",
     "HTTPError", "JSONDecodeError", "CreateFailed"}

\* an except clause that lets the client's ConnectionError through
ensure_except_http(exc, stored) ==
    IF exc \in ExceptionClasses \ {"ConnectionError"}
    THEN [raised |-> "none", status |-> "error", zone_id |-> 0, msg |-> exc,
          names |-> IF exc = "MultipleTemplates" THEN stored ELSE {}]
    ELSE [NoRes EXCEPT !.raised = exc]

\* ensure_mitigation, the except clause: except Exception
ensure_except(exc, stored) ==
    IF exc \in ExceptionClasses
    THEN [raised |-> "none", status |-> "error", zone_id |-> 0, msg |-> exc,
          names |-> IF exc = "MultipleTemplates" THEN stored ELSE {}]
    ELSE [NoRes EXCEPT !.raised = exc]

\* a selection that takes the first stored template when there are several
SelectTemplate_first(t, stored) ==
    IF t = NoTemplate
    THEN IF Cardinality(stored) = 0 THEN [exc |-> "NoTemplates", name |-> NoTemplate]
         ELSE [exc |-> "none", name |-> CHOOSE n \in stored : TRUE]
    ELSE [exc |-> "none", name |-> t]

\* ensure_mitigation, the template selection: [exc, name]
SelectTemplate(t, stored) ==
    IF t = NoTemplate
    THEN IF Cardinality(stored) = 0 THEN [exc |-> "NoTemplates", name |-> NoTemplate]
         ELSE IF Cardinality(stored) = 1 THEN [exc |-> "none", name |-> CHOOSE n \in stored : TRUE]
         ELSE [exc |-> "MultipleTemplates", name |-> NoTemplate]
    ELSE [exc |-> "none", name |-> t]

\* TemplateService.get_template
get_template(name, stored) == IF name \in stored THEN "none" ELSE "TemplateNotFoundError"

\* a lookup that takes any row of the listing
Matches_any(rows, ip) == rows

\* get_zone_by_ip on a received listing: the rows whose zone_name is ip (the
\* first in listing order is returned; the order is the appliance's)
Matches(rows, ip) == {z \in rows : z.name = ip}

\* what a call gets to see of the template store: the listing when it
\* selects by itself, else the named file when there is one
Seen(t, stored) == IF t = NoTemplate THEN stored ELSE stored \cap {t}

\* the zone_payload of a stored template: the configuration of the zone it
\* was taken from, with that zone's name and addresses
TemplateZone == "10.0.0.10"
template_zone_payload(tmpl) ==
    [NoArg EXCEPT !.name = TemplateZone, !.ip_list = <<TemplateZone>>, !.input_ips = <<TemplateZone>>,
                  !.tmpl = tmpl]

\* ensure_mitigation, the payload of the create call: a deep copy of the
\* template's zone_payload with ip as zone_name, ip_list and input_ips
zone_payload(tmpl, ip) ==
    [template_zone_payload(tmpl) EXCEPT !.name = ip, !.ip_list = <<ip>>, !.input_ips = <<ip>>]

\* a test of the create response that lets a missing id pass
zone_id_missing_never(body) == FALSE

\* if not zone_id: raise Exception
zone_id_missing(body) == body.id = 0

\* a monitor call that names no zone
start_monitoring_noid(zone_id, tmpl) == NewReq("POST", "monitor", [NoArg EXCEPT !.tmpl = tmpl])

\* start_monitoring(zone_id, copy.deepcopy(template_data["monitor_payload"]))
start_monitoring(zone_id, tmpl) == NewReq("POST", "monitor", [NoArg EXCEPT !.id = zone_id, !.tmpl = tmpl])

\* a delete payload without the zone's id
remove_payload_name(zone) == [NoArg EXCEPT !.name = zone.name]

\* remove_zone, the object the delete call names
remove_payload(zone) == [NoArg EXCEPT !.id = zone.id, !.name = zone.name]

Idle(c) == pc[c] \in {"idle", "done"}

\* a caller begins an operation; a request handler of the REST API gets a
\* client constructed for the request (get_a10_client), its session None
Enter(c, o) ==
    /\ Idle(c)
    /\ ops < MaxOps
    /\ ops' = ops + 1
    /\ op' = [op EXCEPT ![c] = o]
    /\ log' = [log EXCEPT ![c] = <<>>]
    /\ conn' = [conn EXCEPT ![c] = NoConn]
    /\ session' = [session EXCEPT ![c] = IF c \in RestCallers THEN NoSession ELSE session[c]]
    /\ UNCHANGED <<zones, nextZone, nextSid, settings, cache>>

\* the callers of the sequential specifications run one operation at a time
Begin(c, o) ==
    /\ \A d \in Callers : Idle(d)
    /\ Enter(c, o)

\* an operation ends
End(c, r) ==
    /\ pc' = [pc EXCEPT ![c] = "done"]
    /\ res' = [res EXCEPT ![c] = r]
    /\ rq' = [rq EXCEPT ![c] = NoReq]
    /\ conn' = [conn EXCEPT ![c] = NoConn]
    /\ prev' = IF op[c].kind = "ensure" /\ r.status = "success"
               THEN [ip |-> op[c].ip, template |-> op[c].template] ELSE NoPrev

\* the handler goes on to its next client call
Go(c, where, q) ==
    /\ pc' = [pc EXCEPT ![c] = where]
    /\ rq' = [rq EXCEPT ![c] = q]
    /\ conn' = [conn EXCEPT ![c] = NoConn]
    /\ UNCHANGED <<res, prev>>

Finished(c, where) == pc[c] = where /\ rq[c].phase \in {"ok", "fail"}

\* ensure_mitigation up to the zone lookup
EnsureEntry(c, t, stored) ==
       LET sel == SelectTemplate(t, stored)
           exc == IF sel.exc # "none" THEN sel.exc ELSE get_template(sel.name, stored)
       IN
       /\ loc' = [loc EXCEPT ![c] = [NoLoc EXCEPT !.stored = Seen(t, stored), !.template = sel.name, !.prev = prev]]
       /\ IF exc # "none"
          THEN /\ pc' = [pc EXCEPT ![c] = "done"]
               /\ res' = [res EXCEPT ![c] = ensure_except(exc, stored)]
               /\ rq' = [rq EXCEPT ![c] = NoReq]
               /\ prev' = NoPrev
          ELSE /\ pc' = [pc EXCEPT ![c] = "lookup"]
               /\ res' = [res EXCEPT ![c] = NoRes]
               /\ rq' = [rq EXCEPT ![c] = NewReq("GET", "list", NoArg)]
               /\ UNCHANGED prev

\* ensure_mitigation called by a caller that runs one operation at a time
StartEnsure(c) ==
    \E ip \in IPs, t \in TemplateArgs, stored \in SUBSET TemplateNames :
       /\ Begin(c, [kind |-> "ensure", ip |-> ip, template |-> t])
       /\ EnsureEntry(c, t, stored)

\* the ip of the concurrent requests and the template they name
RaceIp == "10.0.0.1"
RaceTemplate == "t1"

\* POST /zones/mitigate/{ip}: the endpoint is a plain def, so each request
\* runs ensure_mitigation in a thread of the pool, whatever the others do
ConcurrentEnsure(c) ==
    /\ pc[c] = "idle"
    /\ Enter(c, [kind |-> "ensure", ip |-> RaceIp, template |-> RaceTemplate])
    /\ EnsureEntry(c, RaceTemplate, {RaceTemplate})

\* existing = self.get_zone_by_ip(ip_address)
EnsureLookup(c) ==
    /\ Finished(c, "lookup")
    /\ log' = [log EXCEPT ![c] = Append(@, Call(rq[c]))]
    /\ IF rq[c].phase = "fail"
       THEN End(c, ensure_except(rq[c].exc, loc[c].stored)) /\ UNCHANGED loc
       ELSE IF Matches(rq[c].body.rows, op[c].ip) # {}
       THEN \E z \in Matches(rq[c].body.rows, op[c].ip) :
               /\ loc' = [loc EXCEPT ![c].zone = z, ![c].branch = "existing"]
               /\ Go(c, "detail", NewReq("GET", "detail", [NoArg EXCEPT !.id = z.id]))
       ELSE /\ loc' = [loc EXCEPT ![c].branch = "new"]
            /\ Go(c, "create", NewReq("POST", "create", zone_payload(loc[c].template, op[c].ip)))
    /\ UNCHANGED <<zones, nextZone, nextSid, settings, cache, session, op, ops>>

\* details = self.get_zone_details(zone_id), then start_monitoring
EnsureDetail(c) ==
    /\ Finished(c, "detail")
    /\ log' = [log EXCEPT ![c] = Append(@, Call(rq[c]))]
    /\ IF rq[c].phase = "fail"
       THEN End(c, ensure_except(rq[c].exc, loc[c].stored))
       ELSE Go(c, "monitor", start_monitoring(loc[c].zone.id, loc[c].template))
    /\ UNCHANGED <<zones, nextZone, nextSid, settings, cache, session, op, loc, ops>>

\* resp_create = self.create_zone_raw(zone_payload), then start_monitoring
EnsureCreate(c) ==
    /\ Finished(c, "create")
    /\ log' = [log EXCEPT ![c] = Append(@, Call(rq[c]))]
    /\ IF rq[c].phase = "fail"
       THEN End(c, ensure_except(rq[c].exc, loc[c].stored)) /\ UNCHANGED loc
       ELSE IF zone_id_missing(rq[c].body)
       THEN End(c, ensure_except("CreateFailed", loc[c].stored)) /\ UNCHANGED loc
       ELSE /\ loc' = [loc EXCEPT ![c].zone = [id |-> rq[c].body.id, name |-> op[c].ip]]
            /\ Go(c, "monitor", start_monitoring(rq[c].body.id, loc[c].template))
    /\ UNCHANGED <<zones, nextZone, nextSid, settings, cache, session, op, ops>>

\* a reconciler that notifies whatever the setting
notify_start_always(cfg) == TRUE

\* if settings.NOTIFY_MITIGATION_START: in both branches, after start_monitoring
notify_start(cfg) == cfg.NOTIFY_MITIGATION_START

\* after start_monitoring: the notification and the result
EnsureMonitor(c) ==
    /\ Finished(c, "monitor")
    /\ IF rq[c].phase = "fail"
       THEN /\ log' = [log EXCEPT ![c] = Append(@, Call(rq[c]))]
            /\ End(c, ensure_except(rq[c].exc, loc[c].stored))
       ELSE /\ log' = [log EXCEPT ![c] =
                         IF notify_start(settings)
                         THEN Append(Append(@, Call(rq[c])),
                                     Notification("mitigation_start", loc[c].zone.id, op[c].ip, loc[c].template))
                         ELSE Append(@, Call(rq[c]))]
            /\ End(c, [NoRes EXCEPT !.status = "success", !.zone_id = loc[c].zone.id, !.msg = loc[c].branch])
    /\ UNCHANGED <<zones, nextZone, nextSid, settings, cache, session, op, loc, ops>>

\* remove_zone up to the zone lookup
StartRemove(c) ==
    \E ip \in IPs :
       /\ Begin(c, [kind |-> "remove", ip |-> ip, template |-> NoTemplate])
       /\ loc' = [loc EXCEPT ![c] = [NoLoc EXCEPT !.prev = prev]]
       /\ pc' = [pc EXCEPT ![c] = "rm_lookup"]
       /\ res' = [res EXCEPT ![c] = NoRes]
       /\ rq' = [rq EXCEPT ![c] = NewReq("GET", "list", NoArg)]
       /\ UNCHANGED prev

\* zone = self.get_zone_by_ip(ip): nothing is caught in remove_zone
RemoveLookup(c) ==
    /\ Finished(c, "rm_lookup")
    /\ log' = [log EXCEPT ![c] = Append(@, Call(rq[c]))]
    /\ IF rq[c].phase = "fail"
       THEN End(c, [NoRes EXCEPT !.raised = rq[c].exc]) /\ UNCHANGED loc
       ELSE IF Matches(rq[c].body.rows, op[c].ip) = {}
       THEN End(c, [NoRes EXCEPT !.raised = "HTTPException404"]) /\ UNCHANGED loc
       ELSE \E z \in Matches(rq[c].body.rows, op[c].ip) :
               /\ loc' = [loc EXCEPT ![c].zone = z]
               /\ Go(c, "rm_delete", NewReq("DELETE", "delete", remove_payload(z)))
    /\ UNCHANGED <<zones, nextZone, nextSid, settings, cache, session, op, ops>>

\* after self.client.delete: the notification and the result
RemoveDelete(c) ==
    /\ Finished(c, "rm_delete")
    /\ IF rq[c].phase = "fail"
       THEN /\ log' = [log EXCEPT ![c] = Append(@, Call(rq[c]))]
            /\ End(c, [NoRes EXCEPT !.raised = rq[c].exc])
       ELSE /\ log' = [log EXCEPT ![c] =
                         Append(Append(@, Call(rq[c])),
                                Notification("mitigation_stop", loc[c].zone.id, op[c].ip, NoTemplate))]
            /\ End(c, [NoRes EXCEPT !.status = "deleted"])
    /\ UNCHANGED <<zones, nextZone, nextSid, settings, cache, session, op, loc, ops>>

\* client.connect() called on its own, answered from envs
ConnectAs(c, envs, where) ==
    \E e \in envs :
       /\ \A d \in Callers : Idle(d)
       /\ connect(c, e, where)
       /\ op' = [op EXCEPT ![c] = [NoOp EXCEPT !.kind = "connect"]]
       /\ pc' = [pc EXCEPT ![c] = "done"]
       /\ res' = [res EXCEPT ![c] = IF AuthResult(e).session = NoSession
                                    THEN [NoRes EXCEPT !.raised = "ConnectionError"]
                                    ELSE [NoRes EXCEPT !.status = "connected"]]
       /\ log' = [log EXCEPT ![c] = <<>>]
       /\ loc' = [loc EXCEPT ![c] = NoLoc]
       /\ rq' = [rq EXCEPT ![c] = NoReq]
       /\ prev' = NoPrev
       /\ UNCHANGED <<zones, nextZone, settings, ops>>

\* the health check's connect(), every answer of the appliance told apart
Connect(c) == ConnectAs(c, AuthEnvs, "direct")

\* the connect() of one client among several
ClientConnect(c) == ConnectAs(c, ReqAuthEnvs, "client")

\* a removal that never takes the file away
invalidate_session_keep(cch, removed) == cch

\* AuthService.invalidate_session: what is left of the cache record after
\* os.remove, which may fail (the failure is logged, not raised)
invalidate_session(cch, removed) == IF removed THEN NoSession ELSE cch

\* client.invalidate_session()
Invalidate(c) ==
    \E removed \in BOOLEAN :
       /\ \A d \in Callers : Idle(d)
       /\ (cache = NoSession) => removed
       /\ session' = [session EXCEPT ![c] = NoSession]
       /\ cache' = invalidate_session(cache, removed)
       /\ conn' = [conn EXCEPT ![c] = NoConn]
       /\ op' = [op EXCEPT ![c] = [NoOp EXCEPT !.kind = "invalidate"]]
       /\ pc' = [pc EXCEPT ![c] = "done"]
       /\ res' = [res EXCEPT ![c] = [NoRes EXCEPT !.status = IF removed THEN "removed" ELSE "kept"]]
       /\ log' = [log EXCEPT ![c] = <<>>]
       /\ loc' = [loc EXCEPT ![c] = NoLoc]
       /\ rq' = [rq EXCEPT ![c] = NoReq]
       /\ prev' = NoPrev
       /\ UNCHANGED <<zones, nextZone, nextSid, settings, ops>>

(***************************************************************************)
(* The MCP server: Container.get_client hands the one A10Client to every   *)
(* tool call.  A tool call is a call of _request on that client; calls     *)
(* that run at the same time interleave at the network exchanges.  The     *)
(* client has no lock.                                                     *)
(***************************************************************************)
Threads == {"t1", "t2"}
\* _request calls of one thread in one behaviour
MaxCalls == 2

\* a call of _request: where it is, which call of the thread it is, how the
\* call before it ended, the sends it made (the session each went out under),
\* the connect() calls it made, why it is in connect(), what it raised
NoThread == [phase |-> "idle", n |-> 0, before |-> "none", sends |-> <<>>, connects |-> 0,
             where |-> "none", reauth |-> "none", exc |-> "none"]

\* how a call ended, for the call after it
Ending(t) ==
    IF t.phase = "ok" THEN "ok"
    ELSE IF t.reauth = "failed" THEN "reauth_failed"
    ELSE IF t.phase = "fail" THEN "fail"
    ELSE "none"

\* get / post / delete
ThCall(t) ==
    /\ th[t].phase \in {"idle", "ok", "fail"}
    /\ th[t].n < MaxCalls
    /\ th' = [th EXCEPT ![t] = [NoThread EXCEPT !.phase = "ensure", !.n = th[t].n + 1,
                                              !.before = Ending(th[t])]]
    /\ UNCHANGED <<csession, clientVars, notify, detectorVars, trackerVars, acall, loopVars>>

\* _ensure_connection: connect() is entered when the client has no session
ThEnsure(t) ==
    /\ th[t].phase = "ensure"
    /\ th' = [th EXCEPT ![t] = IF csession # NoSession THEN [@ EXCEPT !.phase = "send"]
                                ELSE [@ EXCEPT !.phase = "connecting", !.where = "ensure",
                                               !.connects = @ + 1]]
    /\ UNCHANGED <<csession, clientVars, notify, detectorVars, trackerVars, acall, loopVars>>

\* connect(), from the exchanges of get_authenticated_session to the
\* assignment of self.session and the test that raises
ThConnect(t) ==
    /\ th[t].phase = "connecting"
    /\ \E e \in ReqAuthEnvs :
          LET a == AuthResult(e)
              s == connect_session(csession, a)
          IN
          /\ CanAnswer(e)
          /\ csession' = s
          /\ cache' = a.cache
          /\ nextSid' = IF a.posts = 1 /\ a.session # NoSession THEN nextSid + 1 ELSE nextSid
          /\ th' = [th EXCEPT ![t] =
                       IF a.session = NoSession
                       THEN [@ EXCEPT !.phase = "fail", !.exc = "ConnectionError",
                                      !.reauth = IF th[t].where = "reauth" THEN "failed" ELSE @]
                       ELSE [@ EXCEPT !.phase = IF th[t].where = "reauth" THEN "replay" ELSE "send",
                                      !.reauth = IF th[t].where # "reauth" THEN @
                                                 ELSE IF a.gets = 1 THEN "login" ELSE "cached"]]
    /\ UNCHANGED <<zones, nextZone, settings, session, conn, op, pc, loc, rq, log, res, prev, ops>>
    /\ UNCHANGED <<notify, detectorVars, trackerVars, acall, loopVars>>

\* self.session.request(...): self.session is read when the send is made; it
\* is None when a connect() of another call has failed in between
ThTransport(t, after) ==
    IF csession = NoSession
    THEN th' = [th EXCEPT ![t].phase = "fail", ![t].exc = "AttributeError"]
    ELSE \E r \in Resps :
            LET sent == Append(th[t].sends, [sid |-> csession.sid, status |-> r.status, urlLogin |-> r.urlLogin])
            IN
            th' = [th EXCEPT ![t] =
                      IF after = "check" /\ _is_session_expired(r)
                      THEN [@ EXCEPT !.sends = sent, !.phase = "connecting", !.where = "reauth",
                                     !.connects = @ + 1]
                      ELSE [@ EXCEPT !.sends = sent,
                                     !.phase = IF Outcome(r) \in {"json", "empty"} THEN "ok" ELSE "fail",
                                     !.exc = IF Outcome(r) \in {"json", "empty"} THEN "none" ELSE Outcome(r)]]

\* the first send and the test for session expiry
ThSend(t) ==
    /\ th[t].phase = "send"
    /\ ThTransport(t, FirstMode)
    /\ UNCHANGED <<csession, clientVars, notify, detectorVars, trackerVars, acall, loopVars>>

\* the replay
ThReplay(t) ==
    /\ th[t].phase = "replay"
    /\ ThTransport(t, ReplayMode)
    /\ UNCHANGED <<csession, clientVars, notify, detectorVars, trackerVars, acall, loopVars>>

(***************************************************************************)
(* ZoneChangeService and monitor_zone_changes.  A zone configuration is a  *)
(* dict; of its keys the model keeps id, operational_mode and              *)
(* modified_time.  The summary row of the listing has fewer keys than the  *)
(* detail configuration.                                                   *)
(***************************************************************************)
\* zone ids the appliance hands out to the zones the detector polls
DetZoneIds == {1, 2}
DetValues == {1, 2}
Other(v) == 3 - v

\* A10_USERNAME, another user of the appliance, no user (None)
ServiceAccount == "svc"
ExternalUser == "ext"
NoUser == ""

\* GET /tps/protected_objects/zones/api/<id>/ and a row of the listing
Detail(id, z) == [id |-> id, operational_mode |-> z.operational_mode, modified_time |-> z.modified_time]
Summary(id, z) == [id |-> id, modified_time |-> z.modified_time]

\* the answers to one fetch_all_zones: a listing request raised; else the
\* ids on the pages received before the loop ended (all of them unless a
\* page came without object_list), and for each the detail request's outcome
Fetches(az) ==
    {f \in [raise : BOOLEAN, seen : SUBSET DOMAIN az,
            detail : [DOMAIN az -> {"ok", "fail", "empty"}]] :
        /\ f.raise => (f.seen = {} /\ \A i \in DOMAIN az : f.detail[i] = "ok")
        /\ \A i \in DOMAIN az \ f.seen : f.detail[i] = "ok"}

\* fetch_all_zones, when no listing request raised
fetch_all_zones(az, f) ==
    [i \in {j \in f.seen : f.detail[j] # "empty"} |->
        IF f.detail[i] = "ok" THEN Detail(i, az[i]) ELSE Summary(i, az[i])]

VolatileFields ==
    {"created", "created_time", "modified", "modified_time", "last_modified",
     "updated_at", "stats", "counters", "runtime_stats"}

\* a normalisation that drops the two time stamps only
normalize_timestamps_only(zone) ==
    [k \in DOMAIN zone \ {"created_time", "modified_time"} |-> zone[k]]

normalize_zone_for_comparison(zone) ==
    [k \in DOMAIN zone \ VolatileFields |-> zone[k]]

\* a comparison of the raw snapshots
detect_zone_changes_raw(current, known) ==
    [new |-> DOMAIN current \ DOMAIN known,
     deleted |-> DOMAIN known \ DOMAIN current,
     modified |-> {i \in DOMAIN current \cap DOMAIN known : known[i].snapshot # current[i]}]

detect_zone_changes(current, known) ==
    [new |-> DOMAIN current \ DOMAIN known,
     deleted |-> DOMAIN known \ DOMAIN current,
     modified |-> {i \in DOMAIN current \cap DOMAIN known :
                     normalize_zone_for_comparison(known[i].snapshot)
                        # normalize_zone_for_comparison(current[i])}]

\* get_zone_change_user: event_type_map
AuditType(event_type) ==
    CASE event_type = "created" -> "a10.agalaxy.tps.ddos.zone.created"
      [] event_type = "updated" -> "a10.agalaxy.tps.ddos.zone.updated"
      [] event_type = "deleted" -> "a10.agalaxy.tps.ddos.zone.deleted"
      [] OTHER -> "none"

\* an audit event: its type and its event_data, which is empty ("none"), not
\* JSON ("bad"), JSON that is no object ("list"), or an object ("ok") with
\* zone_id and user_id (0 and NoUser when absent)
AuditEvent(type, data, zone_id, user_id) ==
    [type |-> type, data |-> data, zone_id |-> zone_id, user_id |-> user_id]

\* the answer to the audit query: "fail" (the request raised), "empty"
\* (no object_list) or "ok" with the events of the first page
AuditResponse(status, events) == [status |-> status, events |-> events]

\* the scan of the events from the i-th on
RECURSIVE ScanAudit(_, _, _, _)
ScanAudit(events, i, zone_id, target) ==
    IF i > Len(events) THEN NoUser
    ELSE LET event == events[i] IN
         IF event.type # target THEN ScanAudit(events, i + 1, zone_id, target)
         ELSE IF event.data = "none" THEN ScanAudit(events, i + 1, zone_id, target)
         ELSE IF event.data = "bad" THEN ScanAudit(events, i + 1, zone_id, target)
         ELSE IF event.data = "list" THEN NoUser
         ELSE IF event.zone_id = zone_id /\ event.user_id # NoUser
              THEN IF event.user_id = ServiceAccount THEN NoUser ELSE event.user_id
         ELSE ScanAudit(events, i + 1, zone_id, target)

\* an attribution that takes whoever the first matching event names
get_zone_change_user_any(response, zone_id, event_type) ==
    IF AuditType(event_type) = "none" THEN NoUser
    ELSE IF response.status \in {"fail", "empty"} THEN NoUser
    ELSE LET events == response.events
             hits == {i \in 1..Len(events) :
                         /\ events[i].type = AuditType(event_type)
                         /\ events[i].data = "ok"
                         /\ events[i].zone_id = zone_id
                         /\ events[i].user_id # NoUser}
         IN IF hits = {} THEN NoUser
            ELSE events[CHOOSE i \in hits : \A j \in hits : i <= j].user_id

get_zone_change_user(response, zone_id, event_type) ==
    IF AuditType(event_type) = "none" THEN NoUser
    ELSE IF response.status \in {"fail", "empty"} THEN NoUser
    ELSE ScanAudit(response.events, 1, zone_id, AuditType(event_type))

\* the setting notify_zone_created / _modified / _deleted reads, the audit
\* event type it asks for, the notification it sends
ZoneFlag(kind) ==
    CASE kind = "created" -> "NOTIFY_ZONE_CREATED"
      [] kind = "modified" -> "NOTIFY_ZONE_MODIFIED"
      [] kind = "deleted" -> "NOTIFY_ZONE_DELETED"
ZoneAudit(kind) == IF kind = "modified" THEN "updated" ELSE kind
ZoneEvent(kind) ==
    CASE kind = "created" -> "zone_created"
      [] kind = "modified" -> "zone_modified"
      [] kind = "deleted" -> "zone_deleted"

\* notify_zone_created / _modified / _deleted: the notifications handed to
\* the sink (none or one), whether the audit log was queried, what was raised
notify_zone(kind, zone_id, flags, response) ==
    IF ~flags[ZoneFlag(kind)]
    THEN [sent |-> {}, queried |-> FALSE, raised |-> "none"]
    ELSE LET user == get_zone_change_user(response, zone_id, ZoneAudit(kind)) IN
         [sent |-> IF user = NoUser THEN {}
                   ELSE {[ev |-> ZoneEvent(kind), id |-> zone_id, user |-> user]},
          queried |-> TRUE, raised |-> "none"]

\* the audit answers a poll cycle meets: the query fails, the page has no
\* event for the zone, or one event for it by the service account or by
\* another user
AuditChoices == {"fail", "nothing", "service", "external"}
AuditAnswer(choice, zone_id, kind) ==
    CASE choice = "fail" -> AuditResponse("fail", <<>>)
      [] choice = "nothing" -> AuditResponse("ok", <<>>)
      [] choice = "service" ->
            AuditResponse("ok", <<AuditEvent(AuditType(ZoneAudit(kind)), "ok", zone_id, ServiceAccount)>>)
      [] choice = "external" ->
            AuditResponse("ok", <<AuditEvent(AuditType(ZoneAudit(kind)), "ok", zone_id, ExternalUser)>>)

NoChanges == [new |-> {}, deleted |-> {}, modified |-> {}]
\* what the last pass of the detector did: its kind, the changes it found
\* and the notifications it handed to the sink
NoCycle == [kind |-> "none", changes |-> NoChanges, sent |-> {}]

\* another user of the appliance, or the service through the API, creates,
\* reconfigures, touches (time stamp only) or deletes a zone
ExtCreate ==
    /\ anext \in DetZoneIds
    /\ azones' = [i \in DOMAIN azones \cup {anext} |->
                     IF i = anext THEN [operational_mode |-> 1, modified_time |-> 1] ELSE azones[i]]
    /\ anext' = anext + 1
    /\ zcycle' = NoCycle
    /\ UNCHANGED <<known_zones, zpc, baseline, notify, trackerVars, acall, clientVars, loopVars, containerVars>>

ExtModify ==
    \E i \in DOMAIN azones :
       /\ azones' = [azones EXCEPT ![i] = [operational_mode |-> Other(@.operational_mode),
                                           modified_time |-> Other(@.modified_time)]]
       /\ zcycle' = NoCycle
       /\ UNCHANGED <<anext, known_zones, zpc, baseline, notify, trackerVars, acall, clientVars, loopVars, containerVars>>

ExtTouch ==
    \E i \in DOMAIN azones :
       /\ azones' = [azones EXCEPT ![i].modified_time = Other(@)]
       /\ zcycle' = NoCycle
       /\ UNCHANGED <<anext, known_zones, zpc, baseline, notify, trackerVars, acall, clientVars, loopVars, containerVars>>

ExtDelete ==
    \E i \in DOMAIN azones :
       /\ azones' = [j \in DOMAIN azones \ {i} |-> azones[j]]
       /\ zcycle' = NoCycle
       /\ UNCHANGED <<anext, known_zones, zpc, baseline, notify, trackerVars, acall, clientVars, loopVars, containerVars>>

\* a cycle that keeps the snapshot it had of a modified zone
process_changes_keep(known, current, d) ==
    [i \in (DOMAIN known \cup d.new) \ d.deleted |->
        IF i \in d.new THEN [snapshot |-> current[i]] ELSE known[i]]

\* monitor_zone_changes, what the three loops of a cycle leave in
\* known_zones: new ids get the fetched snapshot, modified ids have theirs
\* replaced, deleted ids are removed
process_changes(known, current, d) ==
    [i \in (DOMAIN known \cup d.new) \ d.deleted |->
        IF i \in d.new \cup d.modified THEN [snapshot |-> current[i]] ELSE known[i]]

\* monitor_zone_changes, the initial population: no notification; a failed
\* fetch is logged and the loop is entered all the same
DetectorStart ==
    /\ zpc = "start"
    /\ \E f \in Fetches(azones) :
          LET current == fetch_all_zones(azones, f) IN
          /\ known_zones' = IF f.raise THEN known_zones
                            ELSE [i \in DOMAIN current |-> [snapshot |-> current[i]]]
          /\ zcycle' = [NoCycle EXCEPT !.kind = IF f.raise THEN "init_failed" ELSE "init"]
    /\ zpc' = "poll"
    /\ baseline' = DOMAIN azones
    /\ UNCHANGED <<azones, anext, notify, trackerVars, acall, clientVars, loopVars, containerVars>>

\* monitor_zone_changes, one cycle of the loop
DetectorPoll ==
    /\ zpc = "poll"
    /\ \E f \in Fetches(azones) :
          IF f.raise
          THEN /\ zcycle' = [NoCycle EXCEPT !.kind = "skipped"]
               /\ UNCHANGED known_zones
          ELSE LET current == fetch_all_zones(azones, f)
                   d == detect_zone_changes(current, known_zones)
               IN
               \E au \in [d.new \cup d.modified \cup d.deleted -> AuditChoices] :
                  LET sent ==
                        UNION ( {notify_zone("created", i, notify, AuditAnswer(au[i], i, "created")).sent : i \in d.new}
                           \cup {notify_zone("modified", i, notify, AuditAnswer(au[i], i, "modified")).sent : i \in d.modified}
                           \cup {notify_zone("deleted", i, notify, AuditAnswer(au[i], i, "deleted")).sent : i \in d.deleted} )
                  IN
                  /\ known_zones' = process_changes(known_zones, current, d)
                  /\ zcycle' = [kind |-> "poll", changes |-> d, sent |-> sent]
    /\ UNCHANGED <<azones, anext, zpc, baseline, notify, trackerVars, acall, clientVars, loopVars, containerVars>>

(***************************************************************************)
(* AttackService and monitor_ddos_attacks.                                 *)
(***************************************************************************)
\* incident ids; 0 stands for a row without incident_id
MaxIncidents == 2
\* rows on the page of ongoing incidents (page=1, items=100, scaled)
MaxRows == 2
\* poll cycles in one behaviour
MaxCycles == 3

IncidentIds == 1..MaxIncidents
RECURSIVE SeqsUpTo(_, _)
SeqsUpTo(S, n) ==
    IF n = 0 THEN {<<>>}
    ELSE SeqsUpTo(S, n - 1) \cup {Append(q, x) : q \in {r \in SeqsUpTo(S, n - 1) : Len(r) = n - 1}, x \in S}

\* the answer to the request for the ongoing incidents: "fail", or the
\* incident_list of the page
IncidentAnswers ==
    {[status |-> "fail", rows |-> <<>>]}
    \cup {[status |-> "ok", rows |-> r] : r \in SeqsUpTo(0..MaxIncidents, MaxRows)}

\* get_ongoing_incidents: any failure is logged and answered with no incidents
get_ongoing_incidents(answer) == IF answer.status = "fail" THEN <<>> ELSE answer.rows

AttackEvent(event, id) == [ev |-> event, id |-> id]

\* a cycle that announces without keeping the incident
Remember_nothing(known, id, now) == known

\* known_incidents[incident_id] = {..., "first_seen": now}
Remember(known, id, now) ==
    [j \in DOMAIN known \cup {id} |-> IF j = id THEN [first_seen |-> now] ELSE known[j]]

\* if elapsed_seconds % 900 != 0: return
OngoingPeriod == 900

\* the whole seconds between two cycles of the loop, as int(elapsed) gives
\* them for an incident known from an earlier cycle: some that are multiples
\* of the period and some that are not
ElapsedValues == {899, 1800}

\* notify_attack_ongoing: whether the notification is sent
notify_attack_ongoing(flags, elapsed_seconds) ==
    flags.NOTIFY_ATTACK_ONGOING /\ elapsed_seconds % OngoingPeriod = 0

\* the loop over current_incidents from row i on: [known, sent].  later is
\* int(elapsed) of an incident known since an earlier cycle; elapsed is 0 for
\* an incident that this cycle has put into known_incidents
RECURSIVE ProcessIncidents(_, _, _, _, _, _)
ProcessIncidents(rows, i, known, now, flags, later) ==
    IF i > Len(rows) THEN [known |-> known, sent |-> <<>>]
    ELSE LET id == rows[i] IN
         IF id = 0 THEN ProcessIncidents(rows, i + 1, known, now, flags, later)
         ELSE IF id \notin DOMAIN known
         THEN LET rest == ProcessIncidents(rows, i + 1, Remember(known, id, now), now, flags, later)
              IN [known |-> rest.known,
                  sent |-> IF flags.NOTIFY_ATTACK_DETECTED
                           THEN <<AttackEvent("attack_detected", id)>> \o rest.sent
                           ELSE rest.sent]
         ELSE LET rest == ProcessIncidents(rows, i + 1, known, now, flags, later)
              IN [known |-> rest.known,
                  sent |-> IF flags.NOTIFY_ATTACK_ONGOING
                              /\ notify_attack_ongoing(flags, IF known[id].first_seen = now THEN 0 ELSE later)
                           THEN <<AttackEvent("attack_ongoing", id)>> \o rest.sent
                           ELSE rest.sent]

\* the ids of a set in some order, each once
RECURSIVE SetToSeq(_)
SetToSeq(S) ==
    IF S = {} THEN <<>>
    ELSE LET x == CHOOSE y \in S : \A z \in S : y <= z IN <<x>> \o SetToSeq(S \ {x})

RowIds(rows) == {rows[i] : i \in 1..Len(rows)} \ {0}

\* a cycle that takes every known incident for ended
MitigatedIds_all(known, rows) == DOMAIN known

\* mitigated_ids = set(known_incidents.keys()) - current_incident_ids
MitigatedIds(known, rows) == DOMAIN known \ RowIds(rows)

NoTrackerCycle == [kind |-> "none", answer |-> [status |-> "none", rows |-> <<>>], before |-> <<>>, sent |-> <<>>,
                   now |-> 0, later |-> 0]

\* elapsed is computed only for a listed incident that is known already
Elapsed(known, rows) == IF RowIds(rows) \cap DOMAIN known = {} THEN {0} ELSE ElapsedValues

\* monitor_ddos_attacks, one cycle of the loop
TrackerPoll ==
    /\ clock < MaxCycles
    /\ \E answer \in IncidentAnswers :
       \E later \in Elapsed(known_incidents, get_ongoing_incidents(answer)) :
          LET now == clock + 1
              rows == get_ongoing_incidents(answer)
              p == ProcessIncidents(rows, 1, known_incidents, now, notify, later)
              gone == MitigatedIds(p.known, rows)
              ended == [k \in 1..Cardinality(gone) |-> AttackEvent("attack_mitigated", SetToSeq(gone)[k])]
          IN
          /\ clock' = now
          /\ known_incidents' = [j \in DOMAIN p.known \ gone |-> p.known[j]]
          /\ tcycle' = [kind |-> "cycle", answer |-> answer, before |-> known_incidents,
                        sent |-> p.sent \o (IF notify.NOTIFY_ATTACK_MITIGATED THEN ended ELSE <<>>),
                        now |-> now, later |-> later]
    /\ UNCHANGED <<notify, detectorVars, acall, clientVars, loopVars, containerVars>>

(***************************************************************************)
(* lifespan and the three poller tasks.  The body of a cycle is            *)
(* synchronous code: the only await of a poller is the sleep at the head   *)
(* of its loop, so a cycle is one step and a cancellation reaches a poller *)
(* either before its first step or in its sleep.                           *)
(***************************************************************************)
\* cycles of one poller in one behaviour
MaxPollCycles == 2

\* the pollers in the order the shutdown code goes through them
Pollers == <<"health", "attack", "zone">>
PollerNames == {Pollers[i] : i \in 1..Len(Pollers)}

\* lifespan: which tasks are created
Enabled(p, flags) ==
    CASE p = "health" -> flags.NOTIFY_SYSTEM_HEALTH
      [] p = "attack" -> flags.NOTIFY_ATTACK_DETECTED \/ flags.NOTIFY_ATTACK_MITIGATED
      [] p = "zone" -> flags.NOTIFY_ZONE_CREATED \/ flags.NOTIFY_ZONE_MODIFIED \/ flags.NOTIFY_ZONE_DELETED

\* what a cycle can raise past its inner handlers: classes derived from
\* Exception, those of the requests library and others
RequestExceptions == {"HTTPError"}
LoopExceptions == RequestExceptions \cup {"TypeError"}

\* a loop that catches the errors of the requests library only
poller_except_requests(exc) ==
    IF exc = "CancelledError" THEN "break"
    ELSE IF exc \in RequestExceptions THEN "continue"
    ELSE "propagate"

\* a loop whose handler catches the cancellation with everything else
poller_except_all(exc) ==
    IF exc \in LoopExceptions \cup {"CancelledError"} THEN "continue" ELSE "propagate"

\* the handlers around a cycle: except asyncio.CancelledError: break, except
\* Exception: log (CancelledError does not derive from Exception)
poller_except(exc) ==
    IF exc = "CancelledError" THEN "break"
    ELSE IF exc \in LoopExceptions THEN "continue"
    ELSE "propagate"

\* a task: not created ("none"), created and not yet run ("new"), in the
\* sleep of its loop ("sleep") or done ("stopped"); the cycles it ran, those
\* that raised, the notifications it handed to the sink; whether a
\* cancellation is waiting to be thrown into it, whether one was ever asked
\* for; how it ended and what the shutdown code got from waiting for it
NoTask == [st |-> "none", cycles |-> 0, failed |-> 0, notes |-> 0, pending |-> FALSE,
           cancelled |-> FALSE, ended |-> "none", awaited |-> "none"]
NoLife == [st |-> "init", pos |-> 0, waiting |-> FALSE]

\* lifespan up to the yield
LifespanStart ==
    /\ life.st = "init"
    /\ task' = [p \in PollerNames |-> IF Enabled(p, notify) THEN [NoTask EXCEPT !.st = "new"] ELSE NoTask]
    /\ life' = [life EXCEPT !.st = "running"]
    /\ UNCHANGED <<hmon, notify, detectorVars, trackerVars, acall, clientVars, containerVars>>

\* the first step of a task: up to the sleep of the first cycle.  A task
\* cancelled before it ran ends cancelled without entering its code
TaskFirstStep(p) ==
    /\ task[p].st = "new"
    /\ task' = [task EXCEPT ![p] = IF @.pending
                                    THEN [@ EXCEPT !.st = "stopped", !.pending = FALSE, !.ended = "cancelled"]
                                    ELSE [@ EXCEPT !.st = "sleep"]]
    /\ UNCHANGED <<life, hmon, notify, detectorVars, trackerVars, acall, clientVars, containerVars>>

\* how a task goes on after the handling h of an exception
After(t, h) ==
    IF h = "continue" THEN [t EXCEPT !.st = "sleep"]
    ELSE [t EXCEPT !.st = "stopped", !.ended = IF h = "break" THEN "returned" ELSE "raised"]

\* the sleep ends and the body of the cycle runs, to the next sleep
Cycle(p) ==
    /\ task[p].st = "sleep"
    /\ ~task[p].pending
    /\ task[p].cycles < MaxPollCycles
    /\ \E out \in {"ok"} \cup LoopExceptions, note \in BOOLEAN :
          LET t == [task[p] EXCEPT !.cycles = @ + 1,
                                   !.failed = IF out = "ok" THEN @ ELSE @ + 1,
                                   !.notes = IF note THEN @ + 1 ELSE @]
          IN task' = [task EXCEPT ![p] = After(t, IF out = "ok" THEN "continue" ELSE poller_except(out))]
    /\ UNCHANGED <<life, hmon, notify, detectorVars, trackerVars, acall, clientVars, containerVars>>

\* CancelledError is thrown into the sleep
TaskCancelled(p) ==
    /\ task[p].st = "sleep"
    /\ task[p].pending
    /\ task' = [task EXCEPT ![p] = After([@ EXCEPT !.pending = FALSE], poller_except("CancelledError"))]
    /\ UNCHANGED <<life, hmon, notify, detectorVars, trackerVars, acall, clientVars, containerVars>>

\* the application is told to stop: lifespan resumes after the yield
ShutdownRequest ==
    /\ life.st = "running"
    /\ life' = [life EXCEPT !.st = "shutdown", !.pos = 1]
    /\ UNCHANGED <<task, hmon, notify, detectorVars, trackerVars, acall, clientVars, containerVars>>

\* lifespan after waiting for the task at pos
Advance(l) == [l EXCEPT !.pos = @ + 1, !.waiting = FALSE,
                        !.st = IF l.pos = Len(Pollers) THEN "down" ELSE @]

\* if <task>: <task>.cancel()
ShutdownCancel ==
    /\ life.st = "shutdown"
    /\ ~life.waiting
    /\ LET p == Pollers[life.pos] IN
       IF task[p].st = "none"
       THEN /\ life' = Advance(life)
            /\ task' = [task EXCEPT ![p].awaited = "skipped"]
       ELSE /\ life' = [life EXCEPT !.waiting = TRUE]
            /\ task' = [task EXCEPT ![p].pending = (task[p].st # "stopped"), ![p].cancelled = TRUE]
    /\ UNCHANGED <<hmon, notify, detectorVars, trackerVars, acall, clientVars, containerVars>>

\* what asyncio.wait_for(task, timeout=2.0) gives for a task that has ended:
\* its result, CancelledError, its exception, or TimeoutError when the time
\* ran out first (wait_for then returns once the task has ended)
Awaited(t) ==
    IF t.ended = "raised" THEN {"raised"}
    ELSE IF t.ended = "cancelled" THEN {"cancelled", "timeout"}
    ELSE {"returned", "timeout"}

\* except (asyncio.CancelledError, asyncio.TimeoutError): pass
shutdown_except(o) == IF o \in {"returned", "cancelled", "timeout"} THEN "next" ELSE "raise"

\* await asyncio.wait_for(<task>, timeout=2.0)
ShutdownAwait ==
    /\ life.st = "shutdown"
    /\ life.waiting
    /\ LET p == Pollers[life.pos] IN
       /\ task[p].st = "stopped"
       /\ \E o \in Awaited(task[p]) :
             /\ task' = [task EXCEPT ![p].awaited = o]
             /\ life' = IF shutdown_except(o) = "next" THEN Advance(life)
                        ELSE [life EXCEPT !.st = "failed", !.waiting = FALSE]
    /\ UNCHANGED <<hmon, notify, detectorVars, trackerVars, acall, clientVars, containerVars>>

(***************************************************************************)
(* monitor_a10_health: one check per cycle.  Nothing between the connect   *)
(* and the assignment of last_status raises: connect is inside its own     *)
(* handler and send_notification handles the errors of its requests.       *)
(***************************************************************************)
\* checks of the health monitor in one behaviour
MaxChecks == 6

\* before the task runs; last_status = None is "none"
NoHealth == [st |-> "off", last_status |-> "none", checks |-> <<>>]

\* try: client.connect() ... except Exception
connect_status(connected) == IF connected THEN "online" ELSE "offline"

\* a monitor that takes the first check for a change
health_event_first(last_status, current_status) ==
    IF current_status # last_status
    THEN IF current_status = "offline" THEN "a10_offline" ELSE "a10_recovered"
    ELSE "none"

\* if last_status is not None and current_status != last_status: the event
\* handed to send_notification, "none" when there is none
health_event(last_status, current_status) ==
    IF last_status # "none" /\ current_status # last_status
    THEN IF current_status = "offline" THEN "a10_offline" ELSE "a10_recovered"
    ELSE "none"

\* lifespan creates the task when NOTIFY_SYSTEM_HEALTH is set; the task runs
\* to its first sleep
HealthStart ==
    /\ hmon.st = "off"
    /\ Enabled("health", notify)
    /\ hmon' = [hmon EXCEPT !.st = "sleep"]
    /\ UNCHANGED <<task, life, notify, detectorVars, trackerVars, acall, clientVars, containerVars>>

\* one cycle: the connect, the notification, last_status = current_status
HealthCheck ==
    /\ hmon.st = "sleep"
    /\ Len(hmon.checks) < MaxChecks
    /\ \E connected \in BOOLEAN :
          LET current_status == connect_status(connected)
              event == health_event(hmon.last_status, current_status)
          IN hmon' = [hmon EXCEPT !.last_status = current_status,
                                  !.checks = Append(@, [status |-> current_status, event |-> event])]
    /\ UNCHANGED <<task, life, notify, detectorVars, trackerVars, acall, clientVars, containerVars>>

(***************************************************************************)
(* Calls of ZoneChangeService on their own, over all small arguments.      *)
(***************************************************************************)
SnapshotKeys == {"zone_name", "created_time", "modified_time", "stats", "counters"}
Snapshots == UNION {[K -> DetValues] : K \in SUBSET SnapshotKeys}

AuditEvents ==
    {AuditEvent(AuditType(t), d, 0, NoUser) : t \in {"created", "updated", "deleted"}, d \in {"none", "bad", "list"}}
    \cup {AuditEvent(AuditType(t), "ok", z, u) :
             t \in {"created", "updated", "deleted"}, z \in {0, 1, 2}, u \in {NoUser, ServiceAccount, ExternalUser}}
AuditResponses ==
    {AuditResponse("fail", <<>>), AuditResponse("empty", <<>>)}
    \cup {AuditResponse("ok", q) : q \in SeqsUpTo(AuditEvents, 2)}

NoCall == [fn |-> "none"]

\* normalize_zone_for_comparison on two snapshots, and detect_zone_changes on
\* a zone known with the one and fetched with the other
NormalizeCall ==
    /\ acall = NoCall
    /\ \E a \in Snapshots, b \in Snapshots :
          acall' = [fn |-> "normalize", a |-> a, b |-> b,
                    na |-> normalize_zone_for_comparison(a),
                    nb |-> normalize_zone_for_comparison(b),
                    changes |-> detect_zone_changes([i \in {1} |-> b], [i \in {1} |-> [snapshot |-> a]])]
    /\ UNCHANGED <<notify, detectorVars, trackerVars, clientVars, loopVars, containerVars>>

\* the snapshots and the known_zones / current_zones dicts of DetectCall
DiffSnapshots == UNION {[K -> DetValues] : K \in SUBSET {"zone_name", "modified_time"}}
DiffZones == UNION {[K -> DiffSnapshots] : K \in SUBSET DetZoneIds}

\* detect_zone_changes(current) with self.known_zones = known; known_after is
\* self.known_zones when the call has returned
DetectCall ==
    /\ acall = NoCall
    /\ \E known \in DiffZones, current \in DiffZones :
          LET kz == [i \in DOMAIN known |-> [snapshot |-> known[i]]] IN
          acall' = [fn |-> "detect", known |-> kz, current |-> current,
                    changes |-> detect_zone_changes(current, kz), known_after |-> kz]
    /\ UNCHANGED <<notify, detectorVars, trackerVars, clientVars, loopVars, containerVars>>

\* one cycle of monitor_zone_changes on a fetched dict, and the changes the
\* cycle after it finds when it fetches the same dict again
CycleCall ==
    /\ acall = NoCall
    /\ \E known \in DiffZones, current \in DiffZones :
          LET kz == [i \in DOMAIN known |-> [snapshot |-> known[i]]]
              d == detect_zone_changes(current, kz)
              after == process_changes(kz, current, d)
          IN
          acall' = [fn |-> "cycle", known |-> kz, current |-> current, changes |-> d,
                    known_after |-> after, next_changes |-> detect_zone_changes(current, after)]
    /\ UNCHANGED <<notify, detectorVars, trackerVars, clientVars, loopVars, containerVars>>

\* the zones an appliance can hold
ApplianceZones ==
    UNION {[K -> [operational_mode : DetValues, modified_time : DetValues]] : K \in SUBSET DetZoneIds}

\* fetch_all_zones twice on an appliance that stays as it is: the initial
\* population with the first result, then a cycle of the loop with the
\* second (skipped when its listing request raised)
FetchCall ==
    /\ acall = NoCall
    /\ \E az \in ApplianceZones :
       \E first \in Fetches(az), second \in Fetches(az) :
          LET initial == fetch_all_zones(az, first)
              kz == [i \in DOMAIN initial |-> [snapshot |-> initial[i]]]
              current == fetch_all_zones(az, second)
              d == IF second.raise THEN NoChanges ELSE detect_zone_changes(current, kz)
          IN
          acall' = [fn |-> "fetch", zones |-> az, first |-> first, second |-> second,
                    initial |-> initial, known |-> kz, current |-> current, changes |-> d,
                    known_after |-> IF second.raise THEN kz ELSE process_changes(kz, current, d)]
    /\ UNCHANGED <<notify, detectorVars, trackerVars, clientVars, loopVars, containerVars>>

\* notify_zone_created / _modified / _deleted for zone 1
NotifyCall ==
    /\ acall = NoCall
    /\ \E kind \in {"created", "modified", "deleted"}, response \in AuditResponses :
          acall' = [fn |-> "notify", kind |-> kind, zone_id |-> 1, response |-> response,
                    out |-> notify_zone(kind, 1, notify, response)]
    /\ UNCHANGED <<notify, detectorVars, trackerVars, clientVars, loopVars, containerVars>>

\* check_interval = max(10, min(settings.<X>_MONITORING_INTERVAL, 300))
MinInterval == 10
MaxInterval == 300

min(a, b) == IF a <= b THEN a ELSE b
max(a, b) == IF a >= b THEN a ELSE b

\* an interval held down to the upper end only
check_interval_upper(configured) == min(configured, MaxInterval)

check_interval(configured) == max(MinInterval, min(configured, MaxInterval))

\* the values of ATTACK_MONITORING_INTERVAL / ZONE_MONITORING_INTERVAL: any
\* integer, here some on both sides of each end of the range
ConfiguredIntervals == {-30, 0, 1, 9, 10, 11, 30, 60, 299, 300, 301, 3600}

\* the interval a poller computes before its loop
IntervalCall ==
    /\ acall = NoCall
    /\ \E p \in {"attack", "zone"}, configured \in ConfiguredIntervals :
          acall' = [fn |-> "interval", poller |-> p, configured |-> configured,
                    effective |-> check_interval(configured)]
    /\ UNCHANGED <<notify, detectorVars, trackerVars, clientVars, loopVars, containerVars>>

(***************************************************************************)
(* The appliance at start: at most one zone; the settings are any.         *)
(***************************************************************************)
InitZones == {{}, {[id |-> 1, name |-> "10.0.0.10"]}}

InitClient ==
    /\ zones \in InitZones
    /\ nextZone = Cardinality(zones) + 1
    /\ nextSid = 1
    /\ settings \in [NOTIFY_MITIGATION_START : BOOLEAN, NOTIFY_MITIGATION_STOP : BOOLEAN]
    /\ cache = NoSession
    /\ session = [c \in Callers |-> NoSession]
    /\ conn = [c \in Callers |-> NoConn]
    /\ op = [c \in Callers |-> NoOp]
    /\ pc = [c \in Callers |-> "idle"]
    /\ loc = [c \in Callers |-> NoLoc]
    /\ rq = [c \in Callers |-> NoReq]
    /\ log = [c \in Callers |-> <<>>]
    /\ res = [c \in Callers |-> NoRes]
    /\ prev = NoPrev
    /\ ops = 0

\* the settings of the pollers: every notification enabled
NotifyFlags ==
    {"NOTIFY_ZONE_CREATED", "NOTIFY_ZONE_MODIFIED", "NOTIFY_ZONE_DELETED",
     "NOTIFY_ATTACK_DETECTED", "NOTIFY_ATTACK_MITIGATED", "NOTIFY_ATTACK_ONGOING",
     "NOTIFY_SYSTEM_HEALTH"}
AllEnabled == [k \in NotifyFlags |-> TRUE]

\* the pollers before their tasks run
InitPollers ==
    /\ azones = <<>>
    /\ anext = 1
    /\ known_zones = <<>>
    /\ zpc = "start"
    /\ zcycle = NoCycle
    /\ baseline = {}
    /\ known_incidents = <<>>
    /\ clock = 0
    /\ tcycle = NoTrackerCycle
    /\ acall = NoCall
    /\ task = [p \in PollerNames |-> NoTask]
    /\ life = NoLife
    /\ hmon = NoHealth
    /\ csession = NoSession
    /\ th = [t \in Threads |-> NoThread]

Init == InitClient /\ InitPollers /\ notify = AllEnabled

\* the pollers on their own: no request handler is active
InitIdle ==
    /\ InitClient
    /\ zones = {}
    /\ settings = [NOTIFY_MITIGATION_START |-> TRUE, NOTIFY_MITIGATION_STOP |-> TRUE]
    /\ InitPollers

\* the callers of the sequential specification
SeqCallers == {"c1"}

Next ==
    /\ UNCHANGED pollerVars
    /\ \E c \in SeqCallers :
          \/ StartEnsure(c)
          \/ EnsureLookup(c)
          \/ EnsureDetail(c)
          \/ EnsureCreate(c)
          \/ EnsureMonitor(c)
          \/ StartRemove(c)
          \/ RemoveLookup(c)
          \/ RemoveDelete(c)
          \/ ReqEnsure(c)
          \/ ReqSend(c)
          \/ ReqReauth(c)
          \/ ReqReplay(c)

Spec == Init /\ [][Next]_vars

\* two request handlers, each with its own client, on an appliance without
\* zones
InitRace == InitIdle /\ notify = AllEnabled

NextRace ==
    /\ UNCHANGED pollerVars
    /\ \E c \in Callers :
          \/ ConcurrentEnsure(c)
          \/ EnsureLookup(c)
          \/ EnsureDetail(c)
          \/ EnsureCreate(c)
          \/ EnsureMonitor(c)
          \/ ReqEnsure(c)
          \/ ReqSend(c)
          \/ ReqReauth(c)
          \/ ReqReplay(c)

SpecRace == InitRace /\ [][NextRace]_vars

\* connect() on its own, any number of times
NextAuth == UNCHANGED pollerVars /\ \E c \in SeqCallers : Connect(c)

SpecAuth == Init /\ [][NextAuth]_vars

\* one client that connects and invalidates in any order
NextSession == UNCHANGED pollerVars /\ \E c \in SeqCallers : Connect(c) \/ Invalidate(c)

SpecSession == Init /\ [][NextSession]_vars

\* several clients (per-request clients, pollers) over the one cache file
NextShare == UNCHANGED pollerVars /\ \E c \in Callers : ClientConnect(c) \/ Invalidate(c)

SpecShare == Init /\ [][NextShare]_vars

\* the zone change detector and the other users of the appliance
InitDetector ==
    /\ InitIdle
    /\ notify \in {n \in [NotifyFlags -> BOOLEAN] :
                     /\ n.NOTIFY_ZONE_CREATED = n.NOTIFY_ZONE_MODIFIED
                     /\ n.NOTIFY_ZONE_CREATED = n.NOTIFY_ZONE_DELETED
                     /\ n.NOTIFY_ATTACK_DETECTED /\ n.NOTIFY_ATTACK_MITIGATED /\ n.NOTIFY_ATTACK_ONGOING
                     /\ n.NOTIFY_SYSTEM_HEALTH}

NextDetector ==
    \/ ExtCreate
    \/ ExtModify
    \/ ExtTouch
    \/ ExtDelete
    \/ DetectorStart
    \/ DetectorPoll

SpecDetector == InitDetector /\ [][NextDetector]_vars

\* the attack tracker
InitTracker ==
    /\ InitIdle
    /\ notify \in {n \in [NotifyFlags -> BOOLEAN] :
                     /\ n.NOTIFY_ZONE_CREATED /\ n.NOTIFY_ZONE_MODIFIED /\ n.NOTIFY_ZONE_DELETED
                     /\ n.NOTIFY_SYSTEM_HEALTH}

NextTracker == TrackerPoll

SpecTracker == InitTracker /\ [][NextTracker]_vars

\* the calls of ZoneChangeService on their own
InitCalls ==
    /\ InitIdle
    /\ notify \in {n \in [NotifyFlags -> BOOLEAN] :
                     /\ n.NOTIFY_ZONE_CREATED = n.NOTIFY_ZONE_MODIFIED
                     /\ n.NOTIFY_ZONE_CREATED = n.NOTIFY_ZONE_DELETED
                     /\ n.NOTIFY_ATTACK_DETECTED /\ n.NOTIFY_ATTACK_MITIGATED /\ n.NOTIFY_ATTACK_ONGOING
                     /\ n.NOTIFY_SYSTEM_HEALTH}

NextCalls == NormalizeCall \/ DetectCall \/ NotifyCall \/ IntervalCall \/ CycleCall \/ FetchCall

SpecCalls == InitCalls /\ [][NextCalls]_vars

\* the tool calls of the MCP server on the shared client: one at a time, and
\* two at the same time
InitContainer == InitIdle /\ notify = AllEnabled

NextSolo == \E t \in {"t1"} : ThCall(t) \/ ThEnsure(t) \/ ThConnect(t) \/ ThSend(t) \/ ThReplay(t)

SpecSolo == InitContainer /\ [][NextSolo]_vars

NextContainer == \E t \in Threads : ThCall(t) \/ ThEnsure(t) \/ ThConnect(t) \/ ThSend(t) \/ ThReplay(t)

SpecContainer == InitContainer /\ [][NextContainer]_vars

\* lifespan and the poller tasks, under some settings of the flags
LoopFlags ==
    {[k \in NotifyFlags |-> k \in on] :
        on \in {NotifyFlags, {}, {"NOTIFY_SYSTEM_HEALTH"}, {"NOTIFY_ATTACK_MITIGATED"},
                {"NOTIFY_ZONE_DELETED", "NOTIFY_SYSTEM_HEALTH"}}}

InitLoops ==
    /\ InitIdle
    /\ notify \in LoopFlags

NextLoops ==
    \/ LifespanStart
    \/ ShutdownRequest
    \/ ShutdownCancel
    \/ ShutdownAwait
    \/ \E p \in PollerNames : TaskFirstStep(p) \/ Cycle(p) \/ TaskCancelled(p)

SpecLoops == InitLoops /\ [][NextLoops]_vars

\* the health monitor, under the same settings of the flags
InitHealth ==
    /\ InitIdle
    /\ notify \in LoopFlags

NextHealth == HealthStart \/ HealthCheck

SpecHealth == InitHealth /\ [][NextHealth]_vars

\* the event loop runs every step that is ready: the shutdown code goes on
\* and a task that was cancelled is resumed
FairLoops ==
    /\ WF_vars(ShutdownCancel)
    /\ WF_vars(ShutdownAwait)
    /\ \A p \in PollerNames : WF_vars(TaskFirstStep(p)) /\ WF_vars(TaskCancelled(p))

SpecLoopsFair == SpecLoops /\ FairLoops

(***************************************************************************)
(* Properties                                                              *)
(***************************************************************************)
Done(c) == pc[c] = "done"
Events(c, ev) == {i \in 1..Len(log[c]) : log[c][i].ev = ev}
Named(ip) == {z \in zones : z.name = ip}
\* the call at hand directly follows a successful ensure_mitigation with the
\* same arguments
Repeated(c) ==
    /\ op[c].kind = "ensure"
    /\ loc[c].prev = [ip |-> op[c].ip, template |-> op[c].template]

\* C1: a second ensure_mitigation(ip, t) right after a successful first one
\* issues no create call, takes the existing-zone branch once its lookup has
\* answered, and the appliance holds at most one zone named ip.
C1_Idempotent ==
    \A c \in Callers :
       (Done(c) /\ Repeated(c)) =>
          /\ Events(c, "create") = {}
          /\ (Len(log[c]) >= 1 /\ log[c][1].ok) => loc[c].branch = "existing"
          /\ Cardinality(Named(op[c].ip)) <= 1

\* C2: ensure_mitigation never raises: it ends with status success or error;
\* an error carries a message and no zone id and is what every failed step
\* gives; success carries the id of the zone whose monitor-enable call
\* succeeded.
C2_NeverRaises ==
    \A c \in Callers :
       (Done(c) /\ op[c].kind = "ensure") =>
          /\ res[c].raised = "none"
          /\ res[c].status \in {"success", "error"}
          /\ res[c].status = "error" => (res[c].zone_id = 0 /\ res[c].msg \in ExceptionClasses)
          /\ (\E i \in 1..Len(log[c]) : ~log[c][i].ok) => res[c].status = "error"
          /\ res[c].status = "success" =>
                /\ res[c].zone_id # 0
                /\ \E i \in Events(c, "monitor") : log[c][i].ok /\ log[c][i].id = res[c].zone_id

C2_Witness ==
    \E c \in Callers :
       /\ Done(c) /\ op[c].kind = "ensure" /\ res[c].status = "error"
       /\ res[c].msg = "ConnectionError"
       /\ Len(log[c]) = 3 /\ log[c][3].ev = "monitor" /\ ~log[c][3].ok

\* a finished request whose first answer was 403, whose re-authentication
\* succeeded and whose replay was answered with 200
Recovered(q) ==
    /\ q.phase \in {"ok", "fail"}
    /\ q.reauth \in {"login", "cached"}
    /\ q.sends[1].status = 403
    /\ q.sends[2].status = 200 /\ ~q.sends[2].urlLogin

C4_ReplayOnce ==
    \A c \in Callers :
       /\ Len(rq[c].sends) <= 2
       /\ Len(rq[c].sends) = 2 =>
             /\ rq[c].phase \in {"ok", "fail"}
             /\ rq[c].reauth \in {"login", "cached"}
             /\ _is_session_expired(rq[c].sends[1])
             /\ _is_session_expired(rq[c].sends[2]) => (rq[c].phase = "fail" /\ rq[c].exc # "none")

C4_Witness ==
    \E c \in Callers :
       /\ Len(rq[c].sends) = 2 /\ rq[c].sends[2].status = 200 /\ rq[c].sends[2].urlLogin
       /\ rq[c].phase = "fail" /\ rq[c].method = "DELETE"

\* C5: without a template name the call goes on with the one stored
\* template when there is exactly one; with none or several it ends with
\* status error (naming the stored templates when several) before any
\* request to the appliance.
C5_AutoSelect ==
    \A c \in Callers :
       (op[c].kind = "ensure" /\ op[c].template = NoTemplate) =>
          /\ Cardinality(loc[c].stored) = 1 => loc[c].template \in loc[c].stored
          /\ (Cardinality(loc[c].stored) = 1 /\ Len(log[c]) >= 3) => log[c][3].tmpl \in loc[c].stored
          /\ Cardinality(loc[c].stored) # 1 =>
                /\ Done(c) /\ res[c].status = "error"
                /\ log[c] = <<>> /\ rq[c] = NoReq
                /\ res[c].msg = IF loc[c].stored = {} THEN "NoTemplates" ELSE "MultipleTemplates"
                /\ res[c].names = loc[c].stored

C5_Witness ==
    \E c \in Callers :
       /\ Done(c) /\ op[c].kind = "ensure" /\ op[c].template = NoTemplate
       /\ loc[c].stored = TemplateNames /\ res[c].status = "error"
       /\ res[c].names = TemplateNames

\* C6: when the listing that remove_zone receives has no zone named ip, the
\* call ends with the 404 not-found failure, having issued no delete call
\* and no notification and having left the zones alone.
C6_NotFound ==
    [][\A c \in Callers :
         ( /\ Finished(c, "rm_lookup") /\ rq[c].phase = "ok"
           /\ ~\E z \in rq[c].body.rows : z.name = op[c].ip
           /\ pc'[c] # pc[c] ) =>
              /\ pc'[c] = "done"
              /\ res'[c].raised = "HTTPException404"
              /\ \A i \in 1..Len(log'[c]) : log'[c][i].ev = "list"
              /\ zones' = zones]_vars

C6_Witness ==
    \E c \in Callers :
       /\ Done(c) /\ op[c].kind = "remove" /\ res[c].raised = "HTTPException404"
       /\ zones # {} /\ Len(log[c]) = 1

\* C7: remove_zone with a matching zone in the listing issues exactly one
\* delete call, which names that zone's id and name; when the call succeeds
\* the zone is gone, one mitigation_stop notification follows it and the
\* status is 'deleted'; when it fails there is no notification.
C7_Remove ==
    \A c \in Callers :
       (Done(c) /\ op[c].kind = "remove" /\ loc[c].zone # NoZone) =>
          /\ loc[c].zone.name = op[c].ip
          /\ Len(log[c]) >= 2 /\ Events(c, "delete") = {2}
          /\ log[c][2].id = loc[c].zone.id /\ log[c][2].name = loc[c].zone.name
          /\ log[c][2].ok =>
                /\ Events(c, "mitigation_stop") = {3}
                /\ res[c].status = "deleted" /\ res[c].raised = "none"
                /\ loc[c].zone \notin zones
          /\ ~log[c][2].ok =>
                /\ Events(c, "mitigation_stop") = {}
                /\ res[c].status # "deleted" /\ res[c].raised # "none"

C7_Witness ==
    \E c \in Callers :
       /\ Done(c) /\ op[c].kind = "remove" /\ loc[c].zone # NoZone
       /\ log[c][2].ok /\ res[c].status = "deleted" /\ Events(c, "mitigation_stop") = {3}

\* C8: with NOTIFY_MITIGATION_STOP disabled, remove_zone hands no
\* mitigation_stop notification to the sink.
C8_StopFlag ==
    \A c \in Callers :
       (op[c].kind = "remove" /\ ~settings.NOTIFY_MITIGATION_STOP) =>
          Events(c, "mitigation_stop") = {}

\* C9: a connect() that loaded a cached session which passed validation
\* sent no login request and holds that very session; any other connect()
\* went through the full login.
C9_CacheReuse ==
    \A c \in Callers :
       conn[c].at = "direct" =>
          /\ (conn[c].loaded /\ validate_session(conn[c].probe)) =>
                /\ conn[c].gets = 0 /\ conn[c].posts = 0
                /\ session[c] = cache /\ session[c] # NoSession
                /\ ~conn[c].raised
          /\ ~(conn[c].loaded /\ validate_session(conn[c].probe)) => conn[c].gets = 1

C9_Witness ==
    \E c \in Callers :
       /\ conn[c].at = "direct" /\ conn[c].loaded /\ conn[c].probe.status = 200
       /\ conn[c].gets = 0 /\ session[c] = cache /\ session[c].sid = 1

\* the credential POST was answered with the login form again
Rejected(post) == post.status = "ok" /\ post.url \in {"login_url", "other_login"} /\ post.marker

C11_LoginCached ==
    \A c \in Callers :
       (conn[c].at = "direct" /\ conn[c].gets = 1 /\ ~conn[c].raised) => cache = session[c]

\* C12: a loaded session is reused only when the probe answered 200 and not
\* with the login page; a redirect toward the login path or a network error
\* during the probe leads to a full login.
C12_ValidOnly200 ==
    \A c \in Callers :
       (conn[c].at = "direct" /\ conn[c].loaded) =>
          /\ conn[c].gets = 0 => (conn[c].probe.status = 200 /\ ~conn[c].probe.bodyLogin)
          /\ ((conn[c].probe.status = 302 /\ conn[c].probe.locLogin) \/ conn[c].probe.status = 0)
                => conn[c].gets = 1

\* C13 as stated: after invalidate_session() the client holds no session and
\* the cache record is gone.
C13_Original ==
    \A c \in Callers :
       op[c].kind = "invalidate" => (session[c] = NoSession /\ cache = NoSession)

\* C13 amended: after invalidate_session() the client holds no session; the
\* cache record is gone when the removal of the file succeeded and is left
\* as it was when it failed; the client's next connect(), finding no record,
\* performs a full login.
C13_Invalidate ==
    [][\A c \in SeqCallers :
         /\ op'[c].kind = "invalidate" =>
               /\ session'[c] = NoSession
               /\ res'[c].status = "removed" => cache' = NoSession
               /\ res'[c].status = "kept" => (cache' = cache /\ cache # NoSession)
         /\ (op[c].kind = "invalidate" /\ op'[c].kind = "connect" /\ cache = NoSession) =>
               (~conn'[c].loaded /\ conn'[c].gets = 1)]_vars

C13_Witness ==
    \E c \in SeqCallers :
       /\ op[c].kind = "invalidate" /\ res[c].status = "removed"
       /\ session[c] = NoSession /\ cache = NoSession /\ nextSid > 1

\* C14 as stated: no two distinct clients hold the same session cookie set.
C14_Original ==
    \A c, d \in Callers :
       (c # d /\ session[c] # NoSession) => session[c] # session[d]

\* C14 amended: two distinct clients hold the same cookie set only when at
\* least one of them loaded it from the session cache; a cookie set that a
\* full login produced and did not write to the cache is held by one client.
C14_SharedByCache ==
    \A c, d \in Callers :
       (c # d /\ session[c] # NoSession /\ session[c] = session[d]) =>
          /\ conn[c].gets = 0 \/ conn[d].gets = 0
          /\ ~(conn[c].gets = 1 /\ ~conn[c].saved)

C14_Witness ==
    \E c, d \in Callers :
       /\ c # d /\ session[c] # NoSession /\ session[c] = session[d]
       /\ conn[c].gets = 1 /\ conn[c].saved /\ conn[d].gets = 0 /\ conn[d].loaded

\* two snapshots differ in a key that is not volatile: one has it and the
\* other has not, or both have it with different values
DiffersOutsideVolatile(a, b) ==
    \E k \in (DOMAIN a \cup DOMAIN b) \ VolatileFields :
       \/ (k \in DOMAIN a) # (k \in DOMAIN b)
       \/ k \in DOMAIN a \cap DOMAIN b /\ a[k] # b[k]

\* C15: detect_zone_changes returns as new the ids fetched and not known, as
\* deleted the ids known and not fetched, as modified exactly the ids in both
\* whose snapshots differ in a key that is not volatile; the three sets are
\* pairwise disjoint and known_zones is the same after the call
C15_DiffCorrect ==
    acall.fn = "detect" =>
        LET d == acall.changes
            cur == DOMAIN acall.current
            kn == DOMAIN acall.known
        IN
        /\ \A i \in DetZoneIds :
              /\ i \in d.new <=> (i \in cur /\ i \notin kn)
              /\ i \in d.deleted <=> (i \in kn /\ i \notin cur)
              /\ i \in d.modified <=>
                    /\ i \in cur /\ i \in kn
                    /\ DiffersOutsideVolatile(acall.known[i].snapshot, acall.current[i])
        /\ d.new \cup d.deleted \cup d.modified \subseteq DetZoneIds
        /\ d.new \cap d.deleted = {}
        /\ d.new \cap d.modified = {}
        /\ d.deleted \cap d.modified = {}
        /\ acall.known_after = acall.known

\* a call that finds one zone new and another modified, the modified one
\* with a changed time stamp as well
C15_Witness ==
    /\ acall.fn = "detect"
    /\ acall.changes.new = {2}
    /\ acall.changes.modified = {1}
    /\ "modified_time" \in DOMAIN acall.current[1]
    /\ "modified_time" \in DOMAIN acall.known[1].snapshot
    /\ acall.current[1].modified_time # acall.known[1].snapshot.modified_time

\* C16: the normalised snapshot has none of the volatile keys and every other
\* key of the snapshot with its value; two snapshots that differ in volatile
\* keys only normalise to equal dicts and the zone is not reported modified
C16_Normalize ==
    acall.fn = "normalize" =>
        /\ DOMAIN acall.na \cap VolatileFields = {}
        /\ DOMAIN acall.na \subseteq DOMAIN acall.a
        /\ \A k \in DOMAIN acall.a \ VolatileFields :
              k \in DOMAIN acall.na /\ acall.na[k] = acall.a[k]
        /\ ~DiffersOutsideVolatile(acall.a, acall.b) =>
              acall.na = acall.nb /\ acall.changes.modified = {}

\* two snapshots with the same zone_name that differ in a time stamp, and in
\* having stats and counters
C16_Witness ==
    /\ acall.fn = "normalize"
    /\ DOMAIN acall.a = SnapshotKeys
    /\ DOMAIN acall.b = {"zone_name", "modified_time"}
    /\ acall.a.zone_name = acall.b.zone_name
    /\ acall.a.modified_time # acall.b.modified_time
    /\ acall.changes.modified = {}

\* C17: a zone that was on the appliance when the detector started never
\* causes a zone_created notification; the initial pass emits nothing and
\* leaves every such zone in known_zones
C17_Baseline ==
    /\ \A e \in zcycle.sent : e.ev = "zone_created" => e.id \notin baseline
    /\ zcycle.kind \in {"init", "init_failed"} =>
          zcycle.sent = {} /\ baseline \subseteq DOMAIN known_zones

\* the audit events of the answered page that name the zone of the call, the
\* category of the change and a user
AuditMatches ==
    IF acall.response.status # "ok" THEN {}
    ELSE {i \in 1..Len(acall.response.events) :
             LET e == acall.response.events[i] IN
             /\ e.type = AuditType(ZoneAudit(acall.kind))
             /\ e.data = "ok"
             /\ e.zone_id = acall.zone_id
             /\ e.user_id # NoUser}

\* C18: a zone notification is sent only when the setting is on and the audit
\* page holds an event for the zone and the category by a user other than the
\* service account, and it carries that user; nothing is sent when the first
\* such event names the service account, when there is none, or when the
\* audit query fails or has no object_list; nothing is raised
C18_Attribution ==
    acall.fn = "notify" =>
        LET evs == acall.response.events
            m == AuditMatches
        IN
        /\ acall.out.raised = "none"
        /\ Cardinality(acall.out.sent) <= 1
        /\ \A n \in acall.out.sent :
              /\ notify[ZoneFlag(acall.kind)]
              /\ n.ev = ZoneEvent(acall.kind)
              /\ n.id = acall.zone_id
              /\ n.user \notin {ServiceAccount, NoUser}
              /\ \E i \in m : evs[i].user_id = n.user
        /\ m = {} => acall.out.sent = {}
        /\ (\E i \in m : evs[i].user_id = ServiceAccount /\ \A j \in m : i <= j) =>
              acall.out.sent = {}

\* a zone_modified notification that carries the other user, found behind an
\* event of the service account about another zone
C18_Witness ==
    /\ acall.fn = "notify"
    /\ acall.kind = "modified"
    /\ acall.out.sent = {[ev |-> "zone_modified", id |-> 1, user |-> ExternalUser]}
    /\ Len(acall.response.events) = 2
    /\ acall.response.events[1] = AuditEvent(AuditType("updated"), "ok", 2, ServiceAccount)

\* the incident ids the appliance reported in the last cycle of the tracker,
\* and the places of an event about an incident among the cycle's notifications
Reported ==
    IF tcycle.answer.status = "ok"
    THEN {tcycle.answer.rows[i] : i \in 1..Len(tcycle.answer.rows)} \ {0}
    ELSE {}
Sent(event, id) == {k \in 1..Len(tcycle.sent) : tcycle.sent[k] = AttackEvent(event, id)}

\* C19: an incident reported in a cycle and not known before it is announced
\* once (not at all with the setting off) and recorded with first_seen = now,
\* whether or not it was known at some earlier time; an incident known before
\* the cycle is not announced again and keeps its first_seen while reported
C19_DetectOnce ==
    tcycle.kind = "cycle" =>
        \A id \in IncidentIds :
           /\ (id \in Reported /\ id \notin DOMAIN tcycle.before) =>
                 /\ Cardinality(Sent("attack_detected", id))
                       = IF notify.NOTIFY_ATTACK_DETECTED THEN 1 ELSE 0
                 /\ id \in DOMAIN known_incidents
                 /\ known_incidents[id].first_seen = tcycle.now
           /\ id \in DOMAIN tcycle.before => Sent("attack_detected", id) = {}
           /\ (id \in Reported /\ id \in DOMAIN tcycle.before) =>
                 /\ id \in DOMAIN known_incidents
                 /\ known_incidents[id] = tcycle.before[id]
           /\ id \notin Reported => Sent("attack_detected", id) = {}

\* the second cycle reports incident 1, known since the first, and
\* incident 2, which is announced and recorded with the time of this cycle
C19_Witness ==
    /\ tcycle.kind = "cycle"
    /\ tcycle.now = 2
    /\ tcycle.answer.rows = <<1, 2>>
    /\ DOMAIN tcycle.before = {1}
    /\ Sent("attack_detected", 1) = {}
    /\ Cardinality(Sent("attack_detected", 2)) = 1
    /\ known_incidents = <<[first_seen |-> 1], [first_seen |-> 2]>>

\* C20: a cycle sends attack_mitigated once for each incident known before it
\* and not reported in it (none with the setting off) and for no other
\* incident, removes each of them from known_incidents, and leaves
\* known_incidents with exactly the ids reported in the cycle
C20_Mitigated ==
    tcycle.kind = "cycle" =>
        /\ \A id \in IncidentIds :
              /\ Cardinality(Sent("attack_mitigated", id))
                    = IF /\ id \in DOMAIN tcycle.before
                         /\ id \notin Reported
                         /\ notify.NOTIFY_ATTACK_MITIGATED
                      THEN 1 ELSE 0
              /\ (id \in DOMAIN tcycle.before /\ id \notin Reported) =>
                    id \notin DOMAIN known_incidents
        /\ DOMAIN known_incidents = Reported

\* incidents 1 and 2 are known; the cycle reports incident 2 only and
\* incident 1 is declared mitigated and forgotten
C20_Witness ==
    /\ tcycle.kind = "cycle"
    /\ tcycle.answer = [status |-> "ok", rows |-> <<2>>]
    /\ DOMAIN tcycle.before = {1, 2}
    /\ Cardinality(Sent("attack_mitigated", 1)) = 1
    /\ Sent("attack_mitigated", 2) = {}
    /\ DOMAIN known_incidents = {2}

\* C21: a poller task stops only when a cancellation was waiting for it: a
\* cycle, whether or not it raised, is followed by the sleep of the next
\* cycle, and no task ends with an exception
C21_Resilience ==
    [][\A p \in PollerNames :
          /\ task'[p].ended # "raised"
          /\ (task[p].st = "sleep" /\ task'[p].st = "stopped") =>
                task[p].pending /\ task'[p].cycles = task[p].cycles
          /\ task'[p].cycles > task[p].cycles => task'[p].st = "sleep"]_vars

\* the zone poller is in its sleep after two cycles that both raised
C21_Witness ==
    /\ task["zone"].st = "sleep"
    /\ task["zone"].cycles = 2
    /\ task["zone"].failed = 2
    /\ ~task["zone"].cancelled

\* C22: a task that was cancelled begins no further cycle and hands nothing
\* more to the sink, and its next step ends it; the shutdown code cancels and
\* waits for every task that was created, goes on after a result, a
\* cancellation or a timeout alike, and once shutdown has begun every task
\* comes to a stop
C22_Cancellation ==
    /\ [][\A p \in PollerNames :
             /\ task[p].cancelled =>
                   /\ task'[p].cycles = task[p].cycles
                   /\ task'[p].notes = task[p].notes
                   /\ task'[p].st \in {task[p].st, "stopped"}
             /\ (life'.st = "down" /\ task[p].st # "none") =>
                   task'[p].cancelled /\ task'[p].awaited \in {"returned", "cancelled", "timeout"}]_vars
    /\ [](life.st # "failed")
    /\ (life.st = "shutdown") ~> (life.st = "down" /\ \A p \in PollerNames : task[p].st \in {"none", "stopped"})

\* shutdown is over: the health poller was cancelled in its sleep after a
\* cycle and returned, the wait for the attack poller timed out, the zone
\* poller was cancelled before it had run
C22_Witness ==
    /\ life.st = "down"
    /\ task["health"].cycles = 1 /\ task["health"].ended = "returned"
    /\ task["health"].awaited = "returned"
    /\ task["attack"].awaited = "timeout"
    /\ task["zone"].ended = "cancelled"

\* C23: the interval a poller sleeps lies in 10..300 whatever integer is
\* configured: below 10 it is 10, above 300 it is 300, inside the range it
\* is the configured value
C23_Interval ==
    acall.fn = "interval" =>
        /\ acall.effective \in 10..300
        /\ acall.configured < 10 => acall.effective = 10
        /\ acall.configured > 300 => acall.effective = 300
        /\ acall.configured \in 10..300 => acall.effective = acall.configured

\* the zone poller with a configured value of 1 second
C23_Witness ==
    /\ acall.fn = "interval"
    /\ acall.poller = "zone"
    /\ acall.configured = 1
    /\ acall.effective = 10

\* C24: get_zone_by_ip(ip) returns a zone exactly when the appliance holds a
\* zone named ip, and the zone returned has that name: a caller whose lookup
\* was answered goes on with a zone of the appliance named ip, and goes on
\* without one (to the creation, to the 404) only when there is none
C24_ExactLookup ==
    \A c \in Callers :
       /\ (pc[c] \in {"detail", "rm_delete"} /\ rq[c].sends = <<>>) =>
             loc[c].zone \in zones /\ loc[c].zone.name = op[c].ip
       /\ (pc[c] = "create" /\ rq[c].sends = <<>>) => Named(op[c].ip) = {}
       /\ (pc[c] = "done" /\ res[c].raised = "HTTPException404") => Named(op[c].ip) = {}

\* C25: when the connect() that follows an expired answer fails, the call
\* ends with connect()'s ConnectionError after its one send (no replay) and
\* the client holds no session; the call after it enters connect() before
\* it sends anything
C25_ReauthFailure ==
    \A t \in Threads :
       /\ th[t].reauth = "failed" =>
             /\ th[t].phase = "fail"
             /\ th[t].exc = "ConnectionError"
             /\ Len(th[t].sends) = 1
             /\ csession = NoSession
       /\ (th[t].before = "reauth_failed" /\ th[t].phase # "ensure") => th[t].connects >= 1
       /\ (th[t].before = "reauth_failed" /\ th[t].phase = "send") =>
             th[t].sends = <<>> /\ th[t].connects = 1 /\ csession # NoSession

\* the call after a failed re-authentication has connected and got its
\* answer with one send
C25_Witness ==
    /\ th["t1"].before = "reauth_failed"
    /\ th["t1"].phase = "ok"
    /\ th["t1"].connects = 1
    /\ Len(th["t1"].sends) = 1

\* C26: a login whose credential POST was answered returns a session exactly
\* when the final URL of the POST is not the login URL and the body does not
\* hold the marker of the login page
C26_LoginSuccess ==
    \A c \in Callers :
       (conn[c].at = "direct" /\ conn[c].posts = 1 /\ conn[c].post.status = "ok") =>
          (~conn[c].raised <=> (conn[c].post.url # "login_url" /\ ~conn[c].post.marker))

\* C27: of the calls that share the one client at most one is inside
\* connect() at a time, and of two calls whose sends under the same session
\* were both answered as expired, never one goes through a login and the
\* other through a connect() of its own that assigns the session again
C27_OneReauth ==
    /\ Cardinality({t \in Threads : th[t].phase = "connecting"}) <= 1
    /\ \A t \in Threads : \A u \in Threads \ {t} :
          ~(/\ th[t].reauth = "login"
            /\ th[u].reauth \in {"login", "cached"}
            /\ th[t].sends[1].sid = th[u].sends[1].sid)

\* C28: every send of a state-changing request, the replay included, carries
\* as X-Csrftoken the token of the session it goes out under, and none when
\* that session has no token; a GET carries none
C28_CurrentToken ==
    \A c \in Callers :
       \A i \in 1..Len(rq[c].sends) :
          /\ StateChanging(rq[c].method) => rq[c].sends[i].hdr = rq[c].sends[i].tok
          /\ ~StateChanging(rq[c].method) => rq[c].sends[i].hdr = 0

C30_NewBranch ==
    \A c \in Callers :
       (op[c].kind = "ensure" /\ loc[c].branch = "new") =>
          /\ pc[c] = "create" =>
                /\ rq[c].method = "POST" /\ rq[c].target = "create"
                /\ rq[c].arg = [id |-> 0, name |-> op[c].ip, ip_list |-> <<op[c].ip>>,
                                input_ips |-> <<op[c].ip>>, tmpl |-> loc[c].template]
          /\ pc[c] = "monitor" =>
                /\ rq[c].target = "monitor"
                /\ rq[c].arg.id # 0 /\ rq[c].arg.id = loc[c].zone.id
                /\ [id |-> rq[c].arg.id, name |-> op[c].ip] \in zones
                /\ rq[c].arg.tmpl = loc[c].template
          /\ Len(log[c]) >= 2 => (Events(c, "create") = {2} /\ log[c][2].name = op[c].ip)
          /\ Cardinality(Events(c, "monitor")) <= 1
          /\ (Done(c) /\ log[c][2].ok /\ res[c].msg # "CreateFailed") =>
                /\ Events(c, "monitor") = {3}
                /\ log[c][3].id # 0 /\ log[c][3].id = loc[c].zone.id
          /\ (Done(c) /\ res[c].msg = "CreateFailed") =>
                /\ log[c][2].ok
                /\ res[c].status = "error" /\ res[c].zone_id = 0
                /\ Events(c, "monitor") = {}
          /\ (Done(c) /\ ~log[c][2].ok) => (res[c].status = "error" /\ Events(c, "monitor") = {})

\* a create call that was answered without an id: the call ended with
\* status error after two client calls
C30_Witness ==
    \E c \in Callers :
       /\ Done(c) /\ op[c].kind = "ensure" /\ loc[c].branch = "new"
       /\ Len(log[c]) = 2 /\ log[c][2].ev = "create" /\ log[c][2].ok
       /\ res[c].status = "error" /\ res[c].msg = "CreateFailed"

\* C31: a call of ensure_mitigation hands at most one mitigation_start
\* notification to the sink, only with NOTIFY_MITIGATION_START enabled and
\* only right after a monitor call that succeeded; a call that ends with
\* status error hands over none
C31_StartNotification ==
    \A c \in Callers :
       op[c].kind = "ensure" =>
          /\ Cardinality(Events(c, "mitigation_start")) <= 1
          /\ \A i \in Events(c, "mitigation_start") :
                /\ settings.NOTIFY_MITIGATION_START
                /\ i > 1 /\ log[c][i - 1].ev = "monitor" /\ log[c][i - 1].ok
                /\ i = Len(log[c])
                /\ log[c][i].id = log[c][i - 1].id /\ log[c][i].name = op[c].ip
          /\ (Done(c) /\ res[c].status # "success") => Events(c, "mitigation_start") = {}
          /\ ~Done(c) => Events(c, "mitigation_start") = {}

\* a call that ended with success under a disabled setting, after a monitor
\* call that succeeded, without a notification
C31_Witness ==
    \E c \in Callers :
       /\ Done(c) /\ op[c].kind = "ensure" /\ res[c].status = "success"
       /\ ~settings.NOTIFY_MITIGATION_START
       /\ log[c][Len(log[c])].ev = "monitor" /\ log[c][Len(log[c])].ok
       /\ Events(c, "mitigation_start") = {}

\* C32: a cycle sends attack_ongoing for an incident exactly when the
\* incident is listed, was known before the cycle, NOTIFY_ATTACK_ONGOING is
\* enabled and the whole seconds since its first_seen are a multiple of 900;
\* the cycle that detects an incident sends none for it
C32_Ongoing ==
    tcycle.kind = "cycle" =>
       \A id \in IncidentIds :
          Sent("attack_ongoing", id) # {}
             <=> /\ id \in Reported
                 /\ id \in DOMAIN tcycle.before
                 /\ notify.NOTIFY_ATTACK_ONGOING
                 /\ tcycle.later % 900 = 0

C34_NeverDropped ==
    acall.fn = "fetch" =>
        /\ ~acall.first.raise =>
              /\ DOMAIN acall.initial = acall.first.seen
              /\ \A i \in acall.first.seen :
                    acall.first.detail[i] # "ok" => acall.initial[i] = Summary(i, acall.zones[i])
        /\ ~acall.second.raise =>
              /\ DOMAIN acall.current = acall.second.seen
              /\ acall.changes.deleted \cap acall.second.seen = {}

\* C39: a zone of an appliance that stays as it is between two consecutive
\* fetches is not found modified, whichever of its detail requests failed
C39_NoFalseModified ==
    acall.fn = "fetch" => acall.changes.modified = {}

\* the checks of the health monitor that handed an event to the notifier
Emitting == {k \in 1..Len(hmon.checks) : hmon.checks[k].event # "none"}

\* C35: a check of the health monitor emits exactly when its status
\* differs from the status of the check before it, a10_offline for offline
\* and a10_recovered for online; the first check emits nothing, and of two
\* emitting checks with none between them one is a10_offline and the other
\* a10_recovered
C35_StatusChanges ==
    /\ \A k \in 1..Len(hmon.checks) :
          /\ (k \in Emitting) <=> (k > 1 /\ hmon.checks[k].status # hmon.checks[k - 1].status)
          /\ k \in Emitting =>
                hmon.checks[k].event = (IF hmon.checks[k].status = "offline" THEN "a10_offline" ELSE "a10_recovered")
    /\ \A j \in Emitting : \A k \in Emitting :
          (j < k /\ Emitting \cap ((j + 1)..(k - 1)) = {}) => hmon.checks[j].event # hmon.checks[k].event
    /\ hmon.last_status = (IF hmon.checks = <<>> THEN "none" ELSE hmon.checks[Len(hmon.checks)].status)

\* five checks: online, online, offline, offline, online
C35_Witness ==
    /\ Len(hmon.checks) = 5
    /\ [k \in 1..5 |-> hmon.checks[k].status] = <<"online", "online", "offline", "offline", "online">>
    /\ [k \in 1..5 |-> hmon.checks[k].event] = <<"none", "none", "a10_offline", "none", "a10_recovered">>

\* C37: an ensure_mitigation that returned status "error" created no zone:
\* the zone its create call was answered with is not on the appliance
C37_ErrorCreatesNothing ==
    \A c \in Callers :
        (Done(c) /\ op[c].kind = "ensure" /\ res[c].status = "error") =>
            ~(loc[c].branch = "new" /\ loc[c].zone \in zones)

\* the create call of c went out to the appliance
CreateIssued(c) ==
    \/ Events(c, "create") # {}
    \/ rq[c].target = "create" /\ rq[c].sends # <<>>

\* C36: of two concurrent ensure_mitigation calls for the same ip on an
\* appliance without a zone for it, at most one issues a create call
C36_OneCreate ==
    \A c \in Callers : \A d \in Callers \ {c} :
        (op[c].kind = "ensure" /\ op[d].kind = "ensure" /\ op[c].ip = op[d].ip) =>
            ~(CreateIssued(c) /\ CreateIssued(d))

\* C38: a tracker cycle whose request for the ongoing incidents failed
\* leaves known_incidents as it was and sends neither attack_mitigated nor
\* attack_detected
C38_FetchFailure ==
    (tcycle.kind = "cycle" /\ tcycle.answer.status = "fail") =>
        /\ known_incidents = tcycle.before
        /\ \A k \in 1..Len(tcycle.sent) : tcycle.sent[k].ev \notin {"attack_mitigated", "attack_detected"}

\* C40: a cycle removes from known_zones only zones that are not on the
\* appliance, and a cycle whose listing was not received whole (a page
\* request raised, or a page came without object_list) changes nothing in
\* known_zones and finds nothing to notify
C40_CompleteListing ==
    acall.fn = "fetch" =>
        /\ (DOMAIN acall.known \ DOMAIN acall.known_after) \cap DOMAIN acall.zones = {}
        /\ (acall.second.raise \/ acall.second.seen # DOMAIN acall.zones) =>
              (acall.known_after = acall.known /\ acall.changes = NoChanges)

====
